---- MODULE Spec2Model ----
(***************************************************************************)
(* GeoAnki userscript (v1.0.0: src/GeoAnki-1.0.0.user.js, v1.1.0:          *)
(* src/unnamed/part_000): round lifecycle, fact interception, country      *)
(* resolution and the timers that drive them, as one state machine.        *)
(* Coordinates are integers in microdegrees.                               *)
(***************************************************************************)
EXTENDS Integers, Sequences, FiniteSets, TLC

VARIABLES ver, loaded, page, gameState, roundLocations, timeouts, intervals,
          calls, reading, svHooked, promptFor, cardRequest, hreRuns,
          responses, probe

vars == <<ver, loaded, page, gameState, roundLocations, timeouts, intervals,
          calls, reading, svHooked, promptFor, cardRequest, hreRuns,
          responses, probe>>

-----------------------------------------------------------------------------
(* Bounds *)

MaxRound == 2
MaxCalls == 1
MaxGames == 1
MaxResponses == 2

(* Values *)

Null == [null |-> TRUE]
NoKey == -1
NoStr == "null"
NaNv == 999999999

\* what parseFloat yields for Infinity, "Infinity" and 1e999; its negation is
\* -Infinity. Math.min and Math.max order it beyond every finite number
Infinity == 2000000000

Abs(x) == IF x < 0 THEN 0 - x ELSE x
Min2(a, b) == IF a < b THEN a ELSE b
Max2(a, b) == IF a > b THEN a ELSE b

Paris == [lat |-> 48850000, lng |-> 2350000]
NewYork == [lat |-> 40700000, lng |-> -74000000]
Spot == [lat |-> 40979898, lng |-> -67500000]

Keys == 0..MaxRound

settings == [enableAnkiIntegration |-> TRUE, automaticCards |-> TRUE,
             instantAddEnabled |-> FALSE]

-----------------------------------------------------------------------------
(* Pure helpers *)

sanitizeCoordinates(lat, lng) ==
    IF lat = NaNv \/ lng = NaNv THEN Null
    ELSE [lat |-> Max2(-90000000, Min2(90000000, lat)),
          lng |-> Max2(-180000000, Min2(180000000, lng))]

isValidCoordinate(coord) ==
    /\ coord # Null
    /\ coord.lat # NaNv /\ coord.lng # NaNv
    /\ Abs(coord.lat) <= 90000000 /\ Abs(coord.lng) <= 180000000

COUNTRY_OVERRIDES ==
    << [coordinates |-> [lat |-> 40979898, lng |-> -67500000],
        tolerance |-> 200000,
        country |-> "Guatemala",
        countryCode |-> "GT",
        additionalInfo |-> [tld |-> ".gt", drivingSide |-> "right",
                            languages |-> <<"Spanish">>,
                            currency |-> "Guatemalan quetzal",
                            continent |-> "North America",
                            capital |-> "Guatemala City"]] >>

DefaultTolerance == 100000

\* override.tolerance || 0.1
toleranceOf(override) ==
    IF override.tolerance # 0 THEN override.tolerance ELSE DefaultTolerance

WithinToleranceStrict(lat, lng, override) ==
    /\ lat # NaNv /\ lng # NaNv
    /\ Abs(lat - override.coordinates.lat) < toleranceOf(override)
    /\ Abs(lng - override.coordinates.lng) < toleranceOf(override)

\* the test of the loop body; a comparison with NaN is false
WithinTolerance(lat, lng, override) ==
    /\ lat # NaNv /\ lng # NaNv
    /\ Abs(lat - override.coordinates.lat) <= toleranceOf(override)
    /\ Abs(lng - override.coordinates.lng) <= toleranceOf(override)

\* for (const override of table), from entry i on
RECURSIVE OverrideFrom(_, _, _, _)
OverrideFrom(table, i, lat, lng) ==
    IF i > Len(table) THEN Null
    ELSE IF WithinTolerance(lat, lng, table[i]) THEN table[i]
    ELSE OverrideFrom(table, i + 1, lat, lng)

checkCountryOverride(lat, lng) == OverrideFrom(COUNTRY_OVERRIDES, 1, lat, lng)

-----------------------------------------------------------------------------
(* External services: responses are a function of the request *)

UnknownInfo ==
    [tld |-> "Unknown", drivingSide |-> "Unknown", languages |-> <<"Unknown">>,
     currency |-> "Unknown", continent |-> "Unknown", capital |-> "Unknown"]

\* nominatim.openstreetmap.org/reverse: address.country, address.country_code
Nominatim(coord) ==
    IF coord = Paris THEN [country |-> "France", country_code |-> "fr"]
    ELSE IF coord = NewYork
         THEN [country |-> "United States", country_code |-> "us"]
         ELSE [country |-> "Australia", country_code |-> "au"]

toUpperCase(code) ==
    IF code = "fr" THEN "FR" ELSE IF code = "us" THEN "US"
    ELSE IF code = "au" THEN "AU" ELSE IF code = "gt" THEN "GT" ELSE code

\* restcountries.com/v3.1/alpha/<code>: [0] of the response
RestCountries(code) ==
    IF code = "FR"
    THEN [name |-> "France", tld |-> ".fr", side |-> "right",
          languages |-> <<"French">>, currency |-> "Euro",
          continent |-> "Europe", capital |-> "Paris"]
    ELSE IF code = "US"
    THEN [name |-> "United States", tld |-> ".us", side |-> "right",
          languages |-> <<"English">>, currency |-> "United States dollar",
          continent |-> "North America", capital |-> "Washington, D.C."]
    ELSE IF code = "GT"
    THEN [name |-> "Guatemala", tld |-> ".gt", side |-> "right",
          languages |-> <<"Spanish">>, currency |-> "Guatemalan quetzal",
          continent |-> "North America", capital |-> "Guatemala City"]
    ELSE [name |-> "Australia", tld |-> ".au", side |-> "left",
          languages |-> <<"English">>, currency |-> "Australian dollar",
          continent |-> "Oceania", capital |-> "Canberra"]

AdditionalInfoOf(c) ==
    [tld |-> c.tld, drivingSide |-> c.side, languages |-> c.languages,
     currency |-> c.currency, continent |-> c.continent, capital |-> c.capital]

\* the object literal built from an override entry
OverrideCountryData(override) ==
    [country |-> override.country, countryCode |-> override.countryCode,
     additionalInfo |-> override.additionalInfo]

\* the `result` object of the resolution function
GeocodeResult(coord, restOk) ==
    LET address == Nominatim(coord)
        countryCode == toUpperCase(address.country_code)
    IN  [country |-> address.country, countryCode |-> countryCode,
         additionalInfo |-> IF restOk
                            THEN AdditionalInfoOf(RestCountries(countryCode))
                            ELSE UnknownInfo]

\* a property of the parsed enrichment body: missing, or present with a list
\* of values (an array, or the Object.values of an object)
Missing == [has |-> FALSE, v |-> <<>>]

Given(v) == [has |-> TRUE, v |-> v]

\* restData[0]: undefined unless the body is an array with a first entry
FirstEntry(restData) ==
    IF restData.kind = "array" /\ Len(restData.items) > 0
    THEN restData.items[1] ELSE Null

\* Object.values(countryData.currencies)[0].name on an object without entries
\* is a TypeError
EntryThrows(countryData) ==
    countryData.currencies.has /\ Len(countryData.currencies.v) = 0

FirstOr(field) ==
    IF field.has /\ Len(field.v) > 0 THEN field.v[1] ELSE "Unknown"

\* the additionalInfo object literal; flagUrl is not modelled
additionalInfo(countryData) ==
    [tld |-> FirstOr(countryData.tld),
     drivingSide |-> IF countryData.car.has THEN FirstOr(countryData.car.side)
                     ELSE "Unknown",
     languages |-> IF countryData.languages.has THEN countryData.languages.v
                   ELSE <<"Unknown">>,
     currency |-> IF countryData.currencies.has
                  THEN countryData.currencies.v[1] ELSE "Unknown",
     continent |-> FirstOr(countryData.continents),
     capital |-> FirstOr(countryData.capital)]

\* the same function with the enrichment block outside its own try: the
\* TypeError reaches the outer catch, which returns null
EnrichedResultUncaught(coord, restData) ==
    IF FirstEntry(restData) # Null /\ EntryThrows(FirstEntry(restData))
    THEN Null
    ELSE [country |-> Nominatim(coord).country,
          countryCode |-> toUpperCase(Nominatim(coord).country_code),
          additionalInfo |->
              IF FirstEntry(restData) = Null THEN UnknownInfo
              ELSE additionalInfo(FirstEntry(restData))]

\* the value the resolution function returns once reverse geocoding gave a
\* country and a code and the enrichment request resolved to restData (null
\* on failure, timeout, HTTP error or a body that is not JSON)
EnrichedResult(coord, restData) ==
    [country |-> Nominatim(coord).country,
     countryCode |-> toUpperCase(Nominatim(coord).country_code),
     additionalInfo |->
         IF FirstEntry(restData) = Null \/ EntryThrows(FirstEntry(restData))
         THEN UnknownInfo
         ELSE additionalInfo(FirstEntry(restData))]

\* the `result` object of getCountryInfo
CountryInfoResult(countryCode) ==
    [country |-> RestCountries(countryCode).name, countryCode |-> countryCode,
     additionalInfo |-> AdditionalInfoOf(RestCountries(countryCode))]

DomCountryData(country) ==
    [country |-> country, countryCode |-> NoStr,
     additionalInfo |-> [drivingSide |-> "Unknown", continent |-> "Unknown"]]

DomGuessData(country) ==
    [country |-> country, countryCode |-> NoStr, additionalInfo |-> [empty |-> TRUE]]

OverviewData == [region |-> "Ile-de-France", coverage |-> "official"]

-----------------------------------------------------------------------------
(* Host page, as the DOM and URL predicates see it *)

isInGame == page.inGame

isRoundEnded == page.screen = "result"

isInActiveRound ==
    IF ~isInGame THEN FALSE
    ELSE IF isRoundEnded THEN FALSE
    ELSE page.screen = "play"

\* what the round adapters read: the first segment of the path of an in-game
\* address (game, challenge, duel, battle-royale), the number after /round/
\* in it, the
\* number in the round indicator div[data-qa="round-number"], the number in
\* the round-score element; NoKey where there is no match
PageView ==
    [inGame |-> page.inGame, path |-> page.path,
     url |-> IF page.roundInUrl THEN page.round ELSE NoKey,
     indicator |-> IF page.inGame /\ page.screen # "blank" THEN page.round
                   ELSE NoKey,
     score |-> NoKey]

\* the URL pattern is /game/<id>/round/<n>
CurrentRoundNumber(view) ==
    IF ~view.inGame THEN 0
    ELSE IF view.path = "game" /\ view.url # NoKey THEN view.url
    ELSE IF view.indicator # NoKey THEN view.indicator
    ELSE IF view.score # NoKey THEN view.score
    ELSE 1

getCurrentRoundNumber == CurrentRoundNumber(PageView)

generateRoundKey == getCurrentRoundNumber

\* 'url-' + number, 'dom-' + number, or null; the URL pattern is /round/<n>
RoundId(view) ==
    IF view.url # NoKey THEN [adapter |-> "url", number |-> view.url]
    ELSE IF view.indicator # NoKey
    THEN [adapter |-> "dom", number |-> view.indicator]
    ELSE Null

extractRoundId == RoundId(PageView)

getGameType ==
    IF ~isInGame THEN NoStr
    ELSE IF page.path = "battle-royale" THEN "battle-royale"
    ELSE IF page.path = "duel" THEN "duel"
    ELSE IF page.path = "challenge" THEN "challenge"
    ELSE "standard"

-----------------------------------------------------------------------------
(* Script state *)

EmptyRecord ==
    [location |-> Null, locationSrc |-> NoStr,
     country |-> NoStr, countrySrc |-> NoStr, countryData |-> Null,
     guessLocation |-> Null, guessCountry |-> NoStr, guessCountryData |-> Null,
     score |-> 0, missedClues |-> <<>>, locationOverview |-> Null,
     cardCreated |-> FALSE]

InitGameState ==
    [inGame |-> FALSE, inRound |-> FALSE, roundNumber |-> 0,
     currentRoundKey |-> NoKey, lastRoundId |-> Null,
     isProcessingRound |-> FALSE,
     actualLocation |-> Null, locationSrc |-> NoStr,
     actualCountry |-> NoStr, countrySrc |-> NoStr, countryData |-> Null,
     guessLocation |-> Null, guessCountry |-> NoStr, guessCountryData |-> Null,
     score |-> 0, missedClues |-> <<>>, locationOverview |-> Null,
     dataSource |-> NoStr, gameData |-> FALSE, cardCreatedForRound |-> FALSE,
     cancelCardCreation |-> FALSE,
     userMissedClues |-> "", userReminder |-> ""]

\* What the user has seen of the latest card-creation request: the kind of
\* request, whether the round had an actual country and whether the page
\* text yields none when the request began, the type of the last
\* notification shown, whether the prompt was shown, whether a note was
\* handed to sendNoteToAnki and where that note's actual country came from,
\* whether the user answered yes to "Create another?", whether a note for
\* the same round had been handed over before this one, what the user entered
\* as missed clues and as reminder in this request (NoStr: no input taken),
\* and the texts the note was compiled with ("auto": the generated ones)
NoRequest ==
    [kind |-> "none", hadCountry |-> FALSE, domFailed |-> FALSE,
     notice |-> "none", shown |-> FALSE, sent |-> FALSE, source |-> NoStr,
     confirmed |-> FALSE, again |-> FALSE,
     typedClues |-> NoStr, typedReminder |-> NoStr,
     usedClues |-> NoStr, usedReminder |-> NoStr]

\* the mutable script state a handler reads and writes
Cur ==
    [gs |-> gameState, rl |-> roundLocations, timeouts |-> timeouts,
     calls |-> calls, sv |-> svHooked, prompt |-> promptFor,
     runs |-> hreRuns, card |-> cardRequest, reading |-> reading]

Commit(s) ==
    /\ Cardinality(s.calls) <= MaxCalls
    /\ gameState' = s.gs
    /\ roundLocations' = s.rl
    /\ timeouts' = s.timeouts
    /\ calls' = s.calls
    /\ svHooked' = s.sv
    /\ promptFor' = s.prompt
    /\ hreRuns' = s.runs
    /\ cardRequest' = s.card
    /\ reading' = s.reading

HasRecord(s, key) == key # NoKey /\ s.rl[key] # Null

Timer(kind, tracked, sig) == [kind |-> kind, tracked |-> tracked, sig |-> sig]

Call(kind, cont, stage, coord, isGuess, code, roundKey, key) ==
    [kind |-> kind, cont |-> cont, stage |-> stage, coord |-> coord,
     isGuess |-> isGuess, code |-> code, roundKey |-> roundKey, key |-> key]

Field(rec, name) == IF name \in DOMAIN rec THEN rec[name] ELSE "undefined"

\* a write to gameState.roundLocations[key].<field> throws TypeError when the
\* record is missing
Throws(s, key) == key # NoKey /\ s.rl[key] = Null

AddCall(s, c) == [s EXCEPT !.calls = @ \cup {c}]

AddTimer(s, t) == [s EXCEPT !.timeouts = @ \cup {t}]

showNotification(s, type) == [s EXCEPT !.card.notice = type]

\* a card-creation request of this kind begins under the current round key
BeginRequest(s, kind, dom) ==
    [s EXCEPT !.card =
        [NoRequest EXCEPT
            !.kind = kind,
            !.hadCountry = /\ s.gs.currentRoundKey # NoKey
                           /\ s.rl[s.gs.currentRoundKey] # Null
                           /\ s.rl[s.gs.currentRoundKey].country # NoStr,
            !.domFailed = (dom.country = NoStr)]]

\* roundKey = roundKey || gameState.currentRoundKey
KeyOr(s, roundKeyArg) ==
    IF roundKeyArg = NoKey THEN s.gs.currentRoundKey ELSE roundKeyArg

\* if (!gameState.roundLocations[key]) gameState.roundLocations[key] = {...}
InitRecord(s, key) ==
    IF s.rl[key] = Null THEN [s EXCEPT !.rl[key] = EmptyRecord] ELSE s

\* if (!gameState.currentRoundKey) currentRoundKey = generateRoundKey()
EnsureKey(s) ==
    IF s.gs.currentRoundKey = NoKey
    THEN [s EXCEPT !.gs.currentRoundKey = generateRoundKey]
    ELSE s

-----------------------------------------------------------------------------
(* Country override and clue synthesis *)

OverrideToRecord(s, override, roundKey) ==
    IF HasRecord(s, roundKey)
    THEN [s EXCEPT !.rl[roundKey].country = override.country,
                   !.rl[roundKey].countrySrc = "override",
                   !.rl[roundKey].countryData = OverrideCountryData(override)]
    ELSE s

OverrideToGlobals(s, override) ==
    [s EXCEPT !.gs.actualCountry = override.country,
              !.gs.countrySrc = "override",
              !.gs.countryData = OverrideCountryData(override)]

processCountryOverride(s, override, roundKeyArg) ==
    OverrideToGlobals(OverrideToRecord(s, override, KeyOr(s, roundKeyArg)),
                      override)

arraysHaveSameElements(arr1, arr2) ==
    IF Len(arr1) # Len(arr2) THEN FALSE
    ELSE \A i \in 1..Len(arr2) : \E j \in 1..Len(arr1) : arr1[j] = arr2[i]

DrivingClue(a, g) ==
    IF Field(a, "drivingSide") # Field(g, "drivingSide")
    THEN <<"Driving Side">> ELSE <<>>

LanguageClue(a, g) ==
    IF "languages" \in DOMAIN a /\ "languages" \in DOMAIN g
       /\ ~arraysHaveSameElements(a.languages, g.languages)
    THEN <<"Language">> ELSE <<>>

TldClue(a, g) ==
    IF Field(a, "tld") # Field(g, "tld") THEN <<"Internet TLD">> ELSE <<>>

\* the same three tests with the TLD clue pushed first
CountryCluesTldFirst(roundData) ==
    IF roundData.countryData # Null /\ roundData.guessCountryData # Null
    THEN TldClue(roundData.countryData.additionalInfo,
                 roundData.guessCountryData.additionalInfo)
         \o DrivingClue(roundData.countryData.additionalInfo,
                        roundData.guessCountryData.additionalInfo)
         \o LanguageClue(roundData.countryData.additionalInfo,
                         roundData.guessCountryData.additionalInfo)
    ELSE <<>>

CountryClues(roundData) ==
    IF roundData.countryData # Null /\ roundData.guessCountryData # Null
    THEN DrivingClue(roundData.countryData.additionalInfo,
                     roundData.guessCountryData.additionalInfo)
         \o LanguageClue(roundData.countryData.additionalInfo,
                         roundData.guessCountryData.additionalInfo)
         \o TldClue(roundData.countryData.additionalInfo,
                    roundData.guessCountryData.additionalInfo)
    ELSE <<>>

OverviewClues(ov) ==
    IF ov = Null THEN <<>>
    ELSE (IF Field(ov, "region") # "undefined"
          THEN <<"Geographic Region">> ELSE <<>>)
         \o (IF Field(ov, "coverage") # "undefined"
             THEN <<"Coverage Type">> ELSE <<>>)

\* the same list with the generic clue never appended
PaddedNever(specific) == specific

Padded(specific) ==
    IF Len(specific) < 2 THEN specific \o <<"General Appearance">>
    ELSE specific

\* the try block of prepareCountryClues. Every property read in it is
\* guarded and join is called on arrays only, so on the records the script
\* builds nothing in it throws and the catch clause, which pushes one
\* "General" clue, is not entered
CluesOf(roundData) ==
    IF roundData.country # NoStr /\ roundData.guessCountry # NoStr
       /\ roundData.country # roundData.guessCountry
    THEN Padded(CountryClues(roundData)
                \o OverviewClues(roundData.locationOverview))
    ELSE <<>>

StoreClues(s, roundKey, missedClues) ==
    [s EXCEPT !.rl[roundKey].missedClues = missedClues,
              !.gs.missedClues = missedClues]

prepareCountryClues(s, roundKeyArg) ==
    IF ~HasRecord(s, KeyOr(s, roundKeyArg)) THEN s
    ELSE StoreClues(s, KeyOr(s, roundKeyArg),
                    CluesOf(s.rl[KeyOr(s, roundKeyArg)]))

-----------------------------------------------------------------------------
(* Round end *)

\* window.geoAnkiTimeouts.forEach(clearTimeout); window.geoAnkiTimeouts = []
ClearTrackedTimeouts(s) ==
    [s EXCEPT !.timeouts = {t \in @ : ~t.tracked}]

SeedFromGameState(gs) ==
    [location |-> gs.actualLocation, locationSrc |-> gs.locationSrc,
     country |-> gs.actualCountry, countrySrc |-> gs.countrySrc,
     countryData |-> gs.countryData,
     guessLocation |-> gs.guessLocation, guessCountry |-> gs.guessCountry,
     guessCountryData |-> gs.guessCountryData,
     score |-> gs.score, missedClues |-> gs.missedClues,
     locationOverview |-> gs.locationOverview, cardCreated |-> FALSE]

Bump(n) == IF n < 2 THEN n + 1 ELSE 2

\* runs[k] counts the executions of handleRoundEnd for round key k since the
\* result screen of k came up
hreKey(s) ==
    [s EXCEPT !.gs.currentRoundKey = generateRoundKey,
              !.runs[generateRoundKey] = Bump(@)]

hreSeed(s) ==
    IF s.rl[generateRoundKey] = Null
    THEN [s EXCEPT !.rl[generateRoundKey] = SeedFromGameState(s.gs)]
    ELSE s

hreOverrideOf(location) ==
    IF isValidCoordinate(location)
    THEN checkCountryOverride(location.lat, location.lng)
    ELSE Null

hreOverride(s) ==
    IF hreOverrideOf(s.rl[generateRoundKey].location) # Null
    THEN processCountryOverride(
             s, hreOverrideOf(s.rl[generateRoundKey].location),
             generateRoundKey)
    ELSE s

hreFlags(s) ==
    [s EXCEPT !.gs.userMissedClues = "", !.gs.userReminder = "",
              !.gs.cardCreatedForRound = FALSE,
              !.gs.cancelCardCreation = FALSE]

hreDomCountry(s, roundKey, dom) ==
    [s EXCEPT !.rl[roundKey].country = dom.country,
              !.rl[roundKey].countrySrc = "dom",
              !.gs.actualCountry = dom.country,
              !.gs.countrySrc = "dom"]

hreDomData(s, roundKey, dom) ==
    IF s.rl[roundKey].countryData = Null
    THEN [s EXCEPT !.rl[roundKey].countryData = DomCountryData(dom.country),
                   !.gs.countryData = DomCountryData(dom.country)]
    ELSE s

hreDomGuess(s, roundKey, dom) ==
    IF dom.guess # NoStr
    THEN [s EXCEPT !.rl[roundKey].guessCountry = dom.guess,
                   !.gs.guessCountry = dom.guess,
                   !.rl[roundKey].guessCountryData = DomGuessData(dom.guess),
                   !.gs.guessCountryData = DomGuessData(dom.guess)]
    ELSE s

hreDomClues(s, roundKey) ==
    IF s.rl[roundKey].missedClues = <<>>
    THEN prepareCountryClues(s, roundKey)
    ELSE s

\* dom.country: what extractCountryFromDOM returns on the page now;
\* dom.guess: the country of a visible "You guessed ..." text
hreDom(s, dom) ==
    IF s.rl[generateRoundKey].country = NoStr /\ dom.country # NoStr
    THEN hreDomClues(
             hreDomGuess(
                 hreDomData(hreDomCountry(s, generateRoundKey, dom),
                            generateRoundKey, dom),
                 generateRoundKey, dom),
             generateRoundKey)
    ELSE s

hrePrompt(s) ==
    IF ver = "v110" /\ settings.automaticCards
       /\ getGameType # "battle-royale" /\ getGameType # "duel"
    THEN AddTimer(s, Timer("prompt", TRUE, generateRoundKey))
    ELSE s

handleRoundEnd(s, dom) ==
    hrePrompt(
        hreDom(hreFlags(hreOverride(hreSeed(hreKey(ClearTrackedTimeouts(s))))),
               dom))

DomInputs ==
    {[country |-> NoStr, guess |-> NoStr],
     [country |-> "France", guess |-> "United States"]}

NoDom == [country |-> NoStr, guess |-> NoStr]

-----------------------------------------------------------------------------
(* Country resolution *)

\* The synchronous prefix of the resolution function, up to its first
\* request: getCountryInfoFromCoordinates (v1.0.0) answers every override
\* match itself; getCountryFromCoordinates (v1.1.0) does so unless isGuess.
\* short: it ended without a request; fact: the fact it yielded
ResolveStart110AnyRole(lat, lng, isGuess) ==
    IF sanitizeCoordinates(lat, lng) = Null
    THEN [short |-> TRUE, fact |-> Null, requests |-> {}]
    ELSE IF checkCountryOverride(lat, lng) # Null
    THEN [short |-> TRUE,
          fact |-> OverrideCountryData(checkCountryOverride(lat, lng)),
          requests |-> {}]
    ELSE [short |-> FALSE, fact |-> Null, requests |-> {"nominatim"}]

ResolveStart110(lat, lng, isGuess) ==
    IF sanitizeCoordinates(lat, lng) = Null
    THEN [short |-> TRUE, fact |-> Null, requests |-> {}]
    ELSE IF checkCountryOverride(lat, lng) # Null /\ ~isGuess
    THEN [short |-> TRUE,
          fact |-> OverrideCountryData(checkCountryOverride(lat, lng)),
          requests |-> {}]
    ELSE [short |-> FALSE, fact |-> Null, requests |-> {"nominatim"}]

ResolveStart100(lat, lng) ==
    IF sanitizeCoordinates(lat, lng) = Null
    THEN [short |-> TRUE, fact |-> Null, requests |-> {}]
    ELSE IF checkCountryOverride(lat, lng) # Null
    THEN [short |-> TRUE,
          fact |-> OverrideCountryData(checkCountryOverride(lat, lng)),
          requests |-> {}]
    ELSE [short |-> FALSE, fact |-> Null, requests |-> {"nominatim"}]

fetchLocationOverview(s, roundKeyArg) ==
    IF KeyOr(s, roundKeyArg) = NoKey THEN s
    ELSE IF s.rl[KeyOr(s, roundKeyArg)] = Null THEN s
    ELSE IF s.rl[KeyOr(s, roundKeyArg)].country = NoStr
            \/ s.rl[KeyOr(s, roundKeyArg)].guessCountry = NoStr THEN s
    ELSE IF s.rl[KeyOr(s, roundKeyArg)].locationOverview # Null THEN s
    ELSE IF ~(page.inGame \/ s.gs.gameData)
    THEN prepareCountryClues(s, KeyOr(s, roundKeyArg))
    ELSE AddCall(s, Call("overview", "overview", "overview", Null, FALSE,
                         NoStr, KeyOr(s, roundKeyArg), s.gs.currentRoundKey))

StoreOverview(s, roundKey) ==
    [s EXCEPT !.rl[roundKey].locationOverview = OverviewData,
              !.gs.locationOverview = OverviewData]

\* the .then of fetchLocationOverview; roundData is the record captured at
\* the call
OverviewCompletion(s, c, ok) ==
    prepareCountryClues(IF ok THEN StoreOverview(s, c.roundKey) ELSE s,
                        c.roundKey)

\* v1.1.0, from the call to the first await
getCountryFromCoordinates(s, lat, lng, isGuess) ==
    IF ~ResolveStart110(lat, lng, isGuess).short
    THEN AddCall(s, Call("geocode", "gcfc110", "nominatim",
                         sanitizeCoordinates(lat, lng), isGuess, NoStr,
                         NoKey, s.gs.currentRoundKey))
    ELSE IF ResolveStart110(lat, lng, isGuess).fact # Null
    THEN processCountryOverride(s, checkCountryOverride(lat, lng), NoKey)
    ELSE s

gcWriteGuess(s, result) ==
    [IF s.rl[s.gs.currentRoundKey] # Null
     THEN [s EXCEPT !.rl[s.gs.currentRoundKey].guessCountry = result.country,
                    !.rl[s.gs.currentRoundKey].guessCountryData = result]
     ELSE s
     EXCEPT !.gs.guessCountry = result.country,
            !.gs.guessCountryData = result]

gcWriteActual(s, result) ==
    [IF s.rl[s.gs.currentRoundKey] # Null
     THEN [s EXCEPT !.rl[s.gs.currentRoundKey].country = result.country,
                    !.rl[s.gs.currentRoundKey].countrySrc = "geocode",
                    !.rl[s.gs.currentRoundKey].countryData = result]
     ELSE s
     EXCEPT !.gs.actualCountry = result.country,
            !.gs.countrySrc = "geocode",
            !.gs.countryData = result]

gcOverview(s, other) ==
    IF s.rl[s.gs.currentRoundKey] # Null
       /\ s.rl[s.gs.currentRoundKey][other] # NoStr
    THEN fetchLocationOverview(s, s.gs.currentRoundKey)
    ELSE s

\* v1.1.0, after the second await: the writes of `result`
GeocodeCompletion110(s, c, result) ==
    IF c.isGuess
    THEN gcOverview(gcWriteGuess(EnsureKey(s), result), "country")
    ELSE gcOverview(gcWriteActual(EnsureKey(s), result), "guessCountry")

getCountryInfo(s, countryCode) ==
    IF countryCode = NoStr THEN s
    ELSE AddCall(s, Call("countryInfo", "countryInfo", "rest", Null, FALSE,
                         countryCode, NoKey, s.gs.currentRoundKey))

ciGlobals(s, result) ==
    [s EXCEPT !.gs.countryData = result,
              !.gs.actualCountry = result.country,
              !.gs.countrySrc = "countryInfo"]

ciRecord(s, result) ==
    IF HasRecord(s, s.gs.currentRoundKey)
    THEN [s EXCEPT !.rl[s.gs.currentRoundKey].country = result.country,
                   !.rl[s.gs.currentRoundKey].countrySrc = "countryInfo",
                   !.rl[s.gs.currentRoundKey].countryData = result]
    ELSE s

\* the .then of getCountryInfo
CountryInfoCompletion(s, c, ok) ==
    IF ~ok THEN s
    ELSE ciRecord(ciGlobals(s, CountryInfoResult(c.code)),
                  CountryInfoResult(c.code))

-----------------------------------------------------------------------------
(* v1.0.0 continuations *)

m100Record(s, countryData, src) ==
    IF s.gs.currentRoundKey # NoKey
    THEN [s EXCEPT !.rl[s.gs.currentRoundKey].countryData = countryData,
                   !.rl[s.gs.currentRoundKey].country = countryData.country,
                   !.rl[s.gs.currentRoundKey].countrySrc = src]
    ELSE s

m100Globals(s, countryData, validCoords, src) ==
    [s EXCEPT !.gs.countryData = countryData,
              !.gs.actualCountry = countryData.country,
              !.gs.countrySrc = src,
              !.gs.actualLocation = validCoords,
              !.gs.locationSrc = "googlemaps"]

\* the .then of processGoogleMapsResponse on the resolved fact
MapsContinuation100(s, countryData, validCoords, src) ==
    IF countryData = Null THEN s
    ELSE IF Throws(s, s.gs.currentRoundKey) THEN s
    ELSE m100Globals(m100Record(s, countryData, src), countryData,
                     validCoords, src)

g100Write(s, roundKey, countryData) ==
    [s EXCEPT !.rl[roundKey].guessCountryData = countryData,
              !.rl[roundKey].guessCountry = countryData.country,
              !.gs.guessCountryData = countryData,
              !.gs.guessCountry = countryData.country]

OverviewIf(s, roundKey, other) ==
    IF s.rl[roundKey][other] # NoStr THEN fetchLocationOverview(s, roundKey)
    ELSE s

\* the .then that writes the guess through the captured roundKey
GuessContinuation100(s, roundKey, countryData) ==
    IF countryData = Null THEN s
    ELSE IF Throws(s, roundKey) THEN s
    ELSE OverviewIf(g100Write(s, roundKey, countryData), roundKey, "country")

a100Write(s, roundKey, countryData, src) ==
    [s EXCEPT !.rl[roundKey].countryData = countryData,
              !.rl[roundKey].country = countryData.country,
              !.rl[roundKey].countrySrc = src,
              !.gs.countryData = countryData,
              !.gs.actualCountry = countryData.country,
              !.gs.countrySrc = src]

\* the .then that writes the actual country through the captured roundData
ActualContinuation100(s, roundKey, countryData, src) ==
    IF countryData = Null THEN s
    ELSE OverviewIf(a100Write(s, roundKey, countryData, src), roundKey,
                    "guessCountry")

\* getCountryInfoFromCoordinates(...).then(cont): the fact at once on an
\* override match, a request otherwise
ResolveGuess100(s, coord, roundKey) ==
    IF ResolveStart100(coord.lat, coord.lng).short
    THEN GuessContinuation100(s, roundKey,
                              ResolveStart100(coord.lat, coord.lng).fact)
    ELSE AddCall(s, Call("geocode", "guess100", "nominatim",
                         sanitizeCoordinates(coord.lat, coord.lng), TRUE,
                         NoStr, roundKey, s.gs.currentRoundKey))

ResolveActual100(s, coord, roundKey) ==
    IF ResolveStart100(coord.lat, coord.lng).short
    THEN ActualContinuation100(s, roundKey,
                               ResolveStart100(coord.lat, coord.lng).fact,
                               "override")
    ELSE AddCall(s, Call("geocode", "actual100", "nominatim",
                         sanitizeCoordinates(coord.lat, coord.lng), FALSE,
                         NoStr, roundKey, s.gs.currentRoundKey))

-----------------------------------------------------------------------------
(* processLocationData *)

pld100Guess(s, roundKey) ==
    IF isValidCoordinate(s.rl[roundKey].guessLocation)
    THEN ResolveGuess100(s, s.rl[roundKey].guessLocation, roundKey)
    ELSE s

pld100Actual(s, roundKey) ==
    IF ~isValidCoordinate(s.rl[roundKey].location) THEN s
    ELSE IF checkCountryOverride(s.rl[roundKey].location.lat,
                                 s.rl[roundKey].location.lng) # Null
    THEN ActualContinuation100(
             s, roundKey,
             OverrideCountryData(
                 checkCountryOverride(s.rl[roundKey].location.lat,
                                      s.rl[roundKey].location.lng)),
             "override")
    ELSE ResolveActual100(s, s.rl[roundKey].location, roundKey)

processLocationData100(s, roundKeyArg) ==
    IF KeyOr(s, roundKeyArg) = NoKey THEN s
    ELSE IF s.rl[KeyOr(s, roundKeyArg)] = Null THEN s
    ELSE pld100Actual(pld100Guess(s, KeyOr(s, roundKeyArg)),
                      KeyOr(s, roundKeyArg))

pld110Guess(s, roundKey) ==
    IF isValidCoordinate(s.rl[roundKey].guessLocation)
    THEN getCountryFromCoordinates(s, s.rl[roundKey].guessLocation.lat,
                                   s.rl[roundKey].guessLocation.lng, TRUE)
    ELSE s

pld110Actual(s, roundKey) ==
    IF ~isValidCoordinate(s.rl[roundKey].location) THEN s
    ELSE IF checkCountryOverride(s.rl[roundKey].location.lat,
                                 s.rl[roundKey].location.lng) # Null
    THEN processCountryOverride(
             s,
             checkCountryOverride(s.rl[roundKey].location.lat,
                                  s.rl[roundKey].location.lng),
             roundKey)
    ELSE getCountryFromCoordinates(s, s.rl[roundKey].location.lat,
                                   s.rl[roundKey].location.lng, FALSE)

processLocationData110(s, roundKeyArg) ==
    IF KeyOr(s, roundKeyArg) = NoKey THEN s
    ELSE IF s.rl[KeyOr(s, roundKeyArg)] = Null THEN s
    ELSE pld110Actual(pld110Guess(s, KeyOr(s, roundKeyArg)),
                      KeyOr(s, roundKeyArg))

-----------------------------------------------------------------------------
(* Google Maps response *)

\* if (!currentRoundKey && isInActiveRound()): key and record
mapsKey(s) ==
    IF s.gs.currentRoundKey = NoKey /\ isInActiveRound
    THEN InitRecord([s EXCEPT !.gs.currentRoundKey = generateRoundKey],
                    generateRoundKey)
    ELSE s

mapsOverrideOf(maps) ==
    IF maps.coord # Null
    THEN checkCountryOverride(maps.coord.lat, maps.coord.lng)
    ELSE Null

mapsValidCoords(maps) ==
    IF maps.coord # Null
    THEN sanitizeCoordinates(maps.coord.lat, maps.coord.lng)
    ELSE Null

mapsOverride(s, maps) ==
    IF mapsOverrideOf(maps) # Null
    THEN OverrideToGlobals(
             OverrideToRecord(s, mapsOverrideOf(maps), s.gs.currentRoundKey),
             mapsOverrideOf(maps))
    ELSE s

mapsLocation(s, validCoords) ==
    IF validCoords # Null /\ s.gs.currentRoundKey # NoKey
    THEN [s EXCEPT !.rl[s.gs.currentRoundKey].location = validCoords,
                   !.rl[s.gs.currentRoundKey].locationSrc = "googlemaps"]
    ELSE s

m100Resolve(s, maps) ==
    IF mapsValidCoords(maps) # Null /\ mapsOverrideOf(maps) = Null
       /\ isInActiveRound
    THEN IF ResolveStart100(mapsValidCoords(maps).lat,
                            mapsValidCoords(maps).lng).short
         THEN MapsContinuation100(
                  s,
                  ResolveStart100(mapsValidCoords(maps).lat,
                                  mapsValidCoords(maps).lng).fact,
                  mapsValidCoords(maps), "override")
         ELSE AddCall(s, Call("geocode", "maps100", "nominatim",
                              mapsValidCoords(maps), FALSE, NoStr, NoKey,
                              s.gs.currentRoundKey))
    ELSE s

m100Body(s, maps) ==
    IF Throws(s, s.gs.currentRoundKey) /\ (maps.hasPano \/ maps.coord # Null)
    THEN s
    ELSE m100Resolve(mapsLocation(mapsOverride(s, maps),
                                  mapsValidCoords(maps)), maps)

\* maps: [hasPano, coord]; coord is the first "d.d,d.d" of the response or Null
processGoogleMapsResponse100(s, maps) == m100Body(mapsKey(s), maps)

m110Globals(s, validCoords) ==
    [s EXCEPT !.gs.actualLocation = validCoords,
              !.gs.locationSrc = "googlemaps",
              !.gs.dataSource = "googlemaps"]

m110Resolve(s, maps) ==
    IF mapsOverrideOf(maps) = Null /\ isInActiveRound
       /\ (s.gs.countryData = Null \/ s.gs.actualCountry = NoStr)
    THEN getCountryFromCoordinates(s, mapsValidCoords(maps).lat,
                                   mapsValidCoords(maps).lng, FALSE)
    ELSE s

m110Store(s, maps) ==
    IF mapsValidCoords(maps) = Null THEN s
    ELSE IF Throws(s, s.gs.currentRoundKey) THEN s
    ELSE m110Resolve(m110Globals(mapsLocation(s, mapsValidCoords(maps)),
                                 mapsValidCoords(maps)), maps)

m110Body(s, maps) ==
    IF Throws(s, s.gs.currentRoundKey) /\ maps.hasPano THEN s
    ELSE IF maps.coord = Null THEN s
    ELSE m110Store(mapsOverride(s, maps), maps)

processGoogleMapsResponse110(s, maps) == m110Body(mapsKey(s), maps)

MapsInputs == [hasPano : {TRUE}, coord : {Paris, Spot}]

-----------------------------------------------------------------------------
(* Game API response *)

\* `override` is declared with const inside the `if (actualCoords)` block
\* (v1.0.0 line 720, v1.1.0 line 982); the test `if (!override)` (line 785,
\* line 1028) stands outside that block, where the name is not bound: reading
\* it throws ReferenceError, which the handler's catch swallows
OverrideInScope == FALSE

apiKey(s) ==
    InitRecord([s EXCEPT !.gs.currentRoundKey = generateRoundKey],
               generateRoundKey)

apiGuess(s, guessCoords) ==
    [s EXCEPT !.rl[generateRoundKey].guessLocation = guessCoords,
              !.gs.guessLocation = guessCoords]

apiOverrideOf(actual) ==
    IF sanitizeCoordinates(actual.lat, actual.lng) # Null
    THEN checkCountryOverride(actual.lat, actual.lng)
    ELSE Null

apiOverride(s, actual) ==
    IF apiOverrideOf(actual) # Null
    THEN processCountryOverride(s, apiOverrideOf(actual), generateRoundKey)
    ELSE s

apiLocation(s, actualCoords) ==
    IF actualCoords # Null
    THEN [s EXCEPT !.rl[generateRoundKey].location = actualCoords,
                   !.rl[generateRoundKey].locationSrc = "api",
                   !.gs.actualLocation = actualCoords,
                   !.gs.locationSrc = "api",
                   !.gs.dataSource = IF ver = "v110" THEN "api" ELSE @]
    ELSE s

\* the statements after the `if (actualCoords)` block
apiResolve(s, data) ==
    IF ~OverrideInScope THEN s
    ELSE IF apiOverrideOf(data.actual) = Null
    THEN IF ver = "v110" THEN processLocationData110(s, generateRoundKey)
         ELSE processLocationData100(s, generateRoundKey)
    ELSE IF ver = "v110"
    THEN getCountryFromCoordinates(s, data.guess.lat, data.guess.lng, TRUE)
    ELSE ResolveGuess100(s, sanitizeCoordinates(data.guess.lat, data.guess.lng),
                         generateRoundKey)

\* if (guess.roundScore !== undefined), inside the `if (actualCoords)` block
apiScore(s, data) ==
    IF sanitizeCoordinates(data.actual.lat, data.actual.lng) # Null
       /\ "score" \in DOMAIN data
    THEN [s EXCEPT !.rl[generateRoundKey].score = data.score,
                   !.gs.score = data.score]
    ELSE s

apiStore(s, data) ==
    IF sanitizeCoordinates(data.guess.lat, data.guess.lng) = Null THEN s
    ELSE apiResolve(
             apiScore(
                 apiLocation(
                     apiOverride(
                         apiGuess(s, sanitizeCoordinates(data.guess.lat,
                                                         data.guess.lng)),
                         data.actual),
                     sanitizeCoordinates(data.actual.lat, data.actual.lng)),
                 data),
             data)

\* data: [guess, actual, code]: data.player.guesses[currentRound] (Null when
\* absent), data.rounds[currentRound] and its countryCode
ApiRoundEnd(s, data) ==
    IF data.guess = Null THEN s ELSE apiStore(apiKey(s), data)

activeLocation(s, actualCoords) ==
    [s EXCEPT !.rl[generateRoundKey].location = actualCoords,
              !.rl[generateRoundKey].locationSrc = "api",
              !.gs.actualLocation = actualCoords,
              !.gs.locationSrc = "api",
              !.gs.dataSource = "api"]

activeResolve(s, data) ==
    IF apiOverrideOf(data.actual) # Null THEN s
    ELSE IF data.code # NoStr THEN getCountryInfo(s, data.code)
    ELSE getCountryFromCoordinates(s, data.actual.lat, data.actual.lng, FALSE)

\* v1.1.0 only: the response seen while the round is played
ApiActiveRound(s, data) ==
    IF sanitizeCoordinates(data.actual.lat, data.actual.lng) = Null THEN s
    ELSE activeResolve(
             activeLocation(
                 apiOverride(apiKey(s), data.actual),
                 sanitizeCoordinates(data.actual.lat, data.actual.lng)),
             data)

apiDispatch(s, data) ==
    IF isRoundEnded THEN ApiRoundEnd(s, data)
    ELSE IF ver = "v110" /\ isInActiveRound THEN ApiActiveRound(s, data)
    ELSE s

\* a body that is not JSON, and a JSON body without rounds
Unparsable == [json |-> FALSE]

NoRounds == [json |-> TRUE]

\* JSON.parse throws into the catch clause (v1.0.0; in v1.1.0 the caller's
\* .json() rejects), or !data || !data.rounds
MissingRounds(data) == "actual" \notin DOMAIN data

\* the same function storing the payload before it tests it
processGeoGuessrApiResponseStoreFirst(s, data) ==
    IF MissingRounds(data) THEN [s EXCEPT !.gs.gameData = TRUE]
    ELSE apiDispatch([s EXCEPT !.gs.gameData = TRUE], data)

processGeoGuessrApiResponse(s, data) ==
    IF MissingRounds(data) THEN s
    ELSE apiDispatch([s EXCEPT !.gs.gameData = TRUE], data)

ApiInputs ==
    [guess : {Paris}, actual : {NewYork, Spot}, code : {NoStr, "US"}]

\* the same bodies with the guess's roundScore
ScoredApiInputs ==
    [guess : {Paris}, actual : {NewYork, Spot}, code : {NoStr, "US"},
     score : {4200}]

\* the body as text (XMLHttpRequest.responseText): a string, which has no
\* property `rounds`; JSON.parse gives the payload back
responseText(data) == [text |-> data]

JSONparse(text) == text.text

\* the load listener of the XHR hook: v1.0.0's processGeoGuessrApiResponse
\* parses its argument, v1.1.0's takes it as the payload
xhrLoad(s, data) ==
    IF ver = "v100"
    THEN processGeoGuessrApiResponse(s, JSONparse(responseText(data)))
    ELSE processGeoGuessrApiResponse(s, responseText(data))

\* v1.1.0: the .then of clone.json() in the fetch hook
fetchThen(s, data) == processGeoGuessrApiResponse(s, data)

\* the hooks the script installs on the page
Hooks == IF ver = "v100" THEN {"xhr"} ELSE {"xhr", "fetch"}

apiDelivery(s, via, data) ==
    IF via = "xhr" THEN xhrLoad(s, data) ELSE fetchThen(s, data)

-----------------------------------------------------------------------------
(* v1.1.0 location sources below the game API *)

slRecord(s, validCoords, src) ==
    [s EXCEPT !.rl[s.gs.currentRoundKey].location = validCoords,
              !.rl[s.gs.currentRoundKey].locationSrc = src]

slGlobals(s, validCoords, src) ==
    [s EXCEPT !.gs.actualLocation = validCoords,
              !.gs.locationSrc = src,
              !.gs.dataSource = src]

slInit(s) == InitRecord(EnsureKey(s), EnsureKey(s).gs.currentRoundKey)

\* the block shared by the StreetView hook, the URL match and the page-text
\* match: key, record, current location, dataSource
StoreCoords(s, validCoords, src) ==
    slGlobals(slRecord(slInit(s), validCoords, src), validCoords, src)

StoreLocation(s, validCoords, src) ==
    getCountryFromCoordinates(StoreCoords(s, validCoords, src),
                              validCoords.lat, validCoords.lng, FALSE)

\* position: args[1].position or panorama.getPosition(), Null when absent
StreetViewPosition(s, position) ==
    IF position # Null /\ isInGame
       /\ (s.gs.actualLocation = Null \/ s.gs.dataSource = NoStr
           \/ s.gs.dataSource = "streetview")
       /\ sanitizeCoordinates(position.lat, position.lng) # Null
    THEN StoreLocation(s, sanitizeCoordinates(position.lat, position.lng),
                       "streetview")
    ELSE s

\* dom: [url, text]: the coordinates matched in location.href and in
\* document.body.innerText, Null when there is no match
extractLocationFromDOM(s, dom) ==
    IF dom.url # Null /\ sanitizeCoordinates(dom.url.lat, dom.url.lng) # Null
    THEN StoreLocation(s, sanitizeCoordinates(dom.url.lat, dom.url.lng), "url")
    ELSE IF dom.text # Null /\ isValidCoordinate(dom.text)
            /\ (s.gs.actualLocation = Null \/ s.gs.dataSource = NoStr)
    THEN StoreLocation(s, sanitizeCoordinates(dom.text.lat, dom.text.lng),
                       "text")
    ELSE s

nextResolve(s, round) ==
    IF checkCountryOverride(round.coord.lat, round.coord.lng) # Null
    THEN processCountryOverride(
             s, checkCountryOverride(round.coord.lat, round.coord.lng), NoKey)
    ELSE IF round.code # NoStr THEN getCountryInfo(s, round.code)
    ELSE getCountryFromCoordinates(s, round.coord.lat, round.coord.lng, FALSE)

\* round: rounds[currentRound] of __NEXT_DATA__ as [coord, code], Null when
\* the element or the entry is missing
interceptNextData(s, round) ==
    IF round = Null THEN s
    ELSE nextResolve(StoreCoords(s, round.coord, "nextjs"), round)

svHook(s) == IF s.gs.dataSource = NoStr THEN [s EXCEPT !.sv = TRUE] ELSE s

\* src: [next, dom]; the request of interceptApiData is answered by a later
\* game API response; google.maps is loaded on a game page
interceptLocationData(s, src) ==
    svHook(extractLocationFromDOM(interceptNextData(s, src.next), src.dom))

SourceInputs ==
    {[next |-> Null, dom |-> [url |-> Null, text |-> Null]],
     [next |-> [coord |-> Paris, code |-> NoStr],
      dom |-> [url |-> Null, text |-> Null]],
     [next |-> Null, dom |-> [url |-> Null, text |-> Paris]],
     [next |-> Null, dom |-> [url |-> Paris, text |-> Null]]}

-----------------------------------------------------------------------------
(* Round lifecycle *)

\* the same function emptying roundLocations as well
resetRoundDataAndRecords(s) ==
    [s EXCEPT !.gs.guessLocation = Null, !.gs.guessCountry = NoStr,
              !.gs.actualLocation = Null, !.gs.locationSrc = NoStr,
              !.gs.actualCountry = NoStr, !.gs.countrySrc = NoStr,
              !.gs.score = 0, !.gs.countryData = Null,
              !.gs.guessCountryData = Null, !.gs.missedClues = <<>>,
              !.gs.locationOverview = Null, !.gs.cardCreatedForRound = FALSE,
              !.gs.dataSource = NoStr, !.gs.cancelCardCreation = FALSE,
              !.gs.userMissedClues = "", !.gs.userReminder = "",
              !.rl = [k \in Keys |-> Null]]

resetRoundData(s) ==
    [s EXCEPT !.gs.guessLocation = Null, !.gs.guessCountry = NoStr,
              !.gs.actualLocation = Null, !.gs.locationSrc = NoStr,
              !.gs.actualCountry = NoStr, !.gs.countrySrc = NoStr,
              !.gs.score = 0, !.gs.countryData = Null,
              !.gs.guessCountryData = Null, !.gs.missedClues = <<>>,
              !.gs.locationOverview = Null, !.gs.cardCreatedForRound = FALSE,
              !.gs.dataSource = NoStr, !.gs.cancelCardCreation = FALSE,
              !.gs.userMissedClues = "", !.gs.userReminder = ""]

glReset(s) == IF ~isInGame THEN resetRoundData(s) ELSE s

\* if (nowInGame !== gameState.inGame || forceCheck)
glGame(s, forceCheck) ==
    IF isInGame # s.gs.inGame \/ forceCheck
    THEN glReset([s EXCEPT !.gs.inGame = isInGame])
    ELSE s

glRoundEnd(s, in) ==
    IF ~s.gs.isProcessingRound
    THEN AddTimer(handleRoundEnd([s EXCEPT !.gs.isProcessingRound = TRUE],
                                 in.dom),
                  Timer("unlock", FALSE, generateRoundKey))
    ELSE s

\* the branches under the round-state test, entered after inRound has been
\* assigned nowInRound
glTransition(s, in) ==
    IF isInActiveRound
    THEN interceptLocationData(
             [s EXCEPT !.gs.currentRoundKey = generateRoundKey], in.src)
    ELSE IF ~isInActiveRound /\ s.gs.inRound THEN glRoundEnd(s, in)
    ELSE s

glRound(s, forceCheck, in) ==
    IF \/ isInActiveRound # s.gs.inRound
       \/ (isInActiveRound /\ getCurrentRoundNumber # s.gs.roundNumber)
       \/ forceCheck
    THEN glTransition([s EXCEPT !.gs.inRound = isInActiveRound,
                                !.gs.roundNumber = getCurrentRoundNumber], in)
    ELSE s

glRetry(s, in) ==
    IF isInActiveRound /\ s.gs.actualLocation = Null /\ in.random
    THEN interceptLocationData(s, in.src)
    ELSE s

\* v1.1.0. in: [src, dom, random]; random is Math.random() < 0.2
gameLoop(s, forceCheck, in) ==
    glRetry(glRound(glGame(s, forceCheck), forceCheck, in), in)

crtNewRound(s, in) ==
    IF extractRoundId # Null /\ extractRoundId # s.gs.lastRoundId
    THEN AddTimer(gameLoop(resetRoundData(
                               [s EXCEPT !.gs.lastRoundId = extractRoundId]),
                           TRUE, in),
                  Timer("locData", FALSE, generateRoundKey))
    ELSE s

crtRoundEnd(s) ==
    IF isRoundEnded /\ ~s.gs.isProcessingRound /\ s.gs.inRound
    THEN AddTimer([s EXCEPT !.gs.isProcessingRound = TRUE],
                  Timer("roundEnd", FALSE, generateRoundKey))
    ELSE s

checkForRoundTransition(s, in) == crtRoundEnd(crtNewRound(s, in))

ugsNewRound(s) ==
    [InitRecord(s, generateRoundKey) EXCEPT
        !.gs.inRound = TRUE,
        !.gs.roundNumber = getCurrentRoundNumber,
        !.gs.currentRoundKey = generateRoundKey,
        !.gs.guessLocation = Null,
        !.gs.guessCountry = NoStr,
        !.gs.userMissedClues = "",
        !.gs.userReminder = "",
        !.gs.cardCreatedForRound = FALSE,
        !.gs.score = 0,
        !.gs.missedClues = <<>>,
        !.gs.locationOverview = Null]

ugsRound(s) ==
    IF isRoundEnded /\ s.gs.inRound
    THEN AddTimer([s EXCEPT !.gs.inRound = FALSE],
                  Timer("roundEnd", TRUE, generateRoundKey))
    ELSE IF isInGame /\ ~s.gs.inRound /\ isInActiveRound THEN ugsNewRound(s)
    ELSE s

ugsGame(s) ==
    IF ~isInGame /\ s.gs.inGame
    THEN [s EXCEPT !.gs.inGame = FALSE,
                   !.gs.actualCountry = NoStr, !.gs.countrySrc = NoStr,
                   !.gs.guessCountry = NoStr, !.gs.countryData = Null,
                   !.gs.guessCountryData = Null,
                   !.gs.cardCreatedForRound = FALSE]
    ELSE IF isInGame /\ ~s.gs.inGame THEN [s EXCEPT !.gs.inGame = TRUE]
    ELSE s

\* v1.0.0
updateGameState(s) == ugsGame(ugsRound(s))

-----------------------------------------------------------------------------
(* Card prompts *)

\* v1.1.0: up to the point where the overlay is shown; the early returns
\* log and show nothing
promptForCardCreation(s) ==
    IF s.gs.cancelCardCreation THEN s
    ELSE IF s.gs.currentRoundKey = NoKey THEN s
    ELSE IF s.rl[s.gs.currentRoundKey] = Null THEN s
    ELSE IF s.rl[s.gs.currentRoundKey].country = NoStr THEN s
    ELSE [s EXCEPT !.prompt = s.gs.currentRoundKey, !.card.shown = TRUE]

pcConfirm(s) ==
    IF s.gs.cardCreatedForRound
    THEN [s EXCEPT !.gs.cardCreatedForRound = FALSE, !.card.confirmed = TRUE]
    ELSE s

pcDomData(s, roundKey, extractedCountry) ==
    IF s.rl[roundKey].countryData = Null
    THEN [s EXCEPT !.rl[roundKey].countryData =
                       DomCountryData(extractedCountry),
                   !.gs.countryData = DomCountryData(extractedCountry)]
    ELSE s

\* the same write without the test of the record's country
pcCountryAlways(s, roundKey, extractedCountry) ==
    IF extractedCountry # NoStr
    THEN pcDomData([s EXCEPT !.rl[roundKey].country = extractedCountry,
                             !.rl[roundKey].countrySrc = "dom",
                             !.gs.actualCountry = extractedCountry,
                             !.gs.countrySrc = "dom"],
                   roundKey, extractedCountry)
    ELSE s

\* if (!roundData.country) { const extractedCountry = extractCountryFromDOM()
pcCountry(s, roundKey, extractedCountry) ==
    IF s.rl[roundKey].country = NoStr
    THEN pcDomData([s EXCEPT !.rl[roundKey].country = extractedCountry,
                             !.rl[roundKey].countrySrc = "dom",
                             !.gs.actualCountry = extractedCountry,
                             !.gs.countrySrc = "dom"],
                   roundKey, extractedCountry)
    ELSE s

\* roundData.guessCountryData || {country: guessedLocation, ...}
pcGuessData(s, roundKey, guessed) ==
    IF s.rl[roundKey].guessCountryData # Null
    THEN s.rl[roundKey].guessCountryData
    ELSE DomGuessData(guessed)

pcGuess(s, roundKey, guessed) ==
    [s EXCEPT !.rl[roundKey].guessCountry = guessed,
              !.gs.guessCountry = guessed,
              !.rl[roundKey].guessCountryData =
                  pcGuessData(s, roundKey, guessed),
              !.gs.guessCountryData = pcGuessData(s, roundKey, guessed)]

pcClues(s, roundKey) ==
    IF s.rl[roundKey].missedClues = <<>>
    THEN prepareCountryClues(s, roundKey)
    ELSE s

\* String.prototype.trim on what a text input may hold
trim(text) == IF text = "  " THEN "" ELSE text

\* the value is truthy: neither null (a cancelled prompt()) nor ""
Truthy(text) == text # NoStr /\ text # ""

\* v1.0.0: if (missedClues && missedClues.trim()) userMissedClues = ...;
\* likewise the reminder
pcTexts(s, in) ==
    [s EXCEPT !.gs.userMissedClues =
                  IF Truthy(in.clues) /\ Truthy(trim(in.clues))
                  THEN trim(in.clues) ELSE @,
              !.gs.userReminder =
                  IF Truthy(in.reminder) /\ Truthy(trim(in.reminder))
                  THEN trim(in.reminder) ELSE @,
              !.card.typedClues = in.clues,
              !.card.typedReminder = in.reminder]

\* v1.1.0: cluesValue = cluesTextarea.value.trim(); if (cluesValue) ...
hcTexts(s, in) ==
    [s EXCEPT !.gs.userMissedClues =
                  IF Truthy(trim(in.clues)) THEN trim(in.clues) ELSE @,
              !.gs.userReminder =
                  IF Truthy(trim(in.reminder)) THEN trim(in.reminder) ELSE @,
              !.card.typedClues = in.clues,
              !.card.typedReminder = in.reminder]

\* buildAnkiCardData: the text under "Key Clues You Missed" and under "Next
\* Time, Remember" (v1.1.0 tests !useDefaults as well)
CardText(userText, useDefaults) ==
    IF Truthy(userText) /\ Truthy(trim(userText))
       /\ ~(ver = "v110" /\ useDefaults)
    THEN userText
    ELSE "auto"

bdTexts(s, useDefaults) ==
    [s EXCEPT !.card.usedClues = CardText(s.gs.userMissedClues, useDefaults),
              !.card.usedReminder = CardText(s.gs.userReminder, useDefaults)]

\* a note for the round is with AnkiConnect, or was added by it
NoteHandedOver(s, roundKey) ==
    \/ \E c \in s.calls \cup s.reading :
          c.kind = "anki" /\ c.roundKey = roundKey
    \/ s.rl[roundKey].cardCreated

\* the note leaves for AnkiConnect: the first request of sendNoteToAnki
sendNoteToAnki(s, roundKey) ==
    [AddCall(s, Call("anki", "anki", "modelFieldNames", Null, FALSE, NoStr,
                     roundKey, roundKey))
        EXCEPT !.card.sent = TRUE,
               !.card.source = s.rl[roundKey].countrySrc,
               !.card.again = NoteHandedOver(s, roundKey)]

\* the useDefaults branch of buildAnkiCardData (v1.1.0): the actual country
bdCountry(s, roundKey, extractedCountry) ==
    IF s.rl[roundKey].country # NoStr THEN s
    ELSE IF extractedCountry # NoStr
    THEN [s EXCEPT !.rl[roundKey].country = extractedCountry,
                   !.rl[roundKey].countrySrc = "dom",
                   !.gs.actualCountry = extractedCountry,
                   !.gs.countrySrc = "dom"]
    ELSE [s EXCEPT !.rl[roundKey].country = "Unknown Country",
                   !.rl[roundKey].countrySrc = "default",
                   !.gs.actualCountry = "Unknown Country",
                   !.gs.countrySrc = "default"]

\* the useDefaults branch of buildAnkiCardData (v1.1.0): the guess country
bdGuess(s, roundKey) ==
    IF s.rl[roundKey].guessCountry # NoStr THEN s
    ELSE [s EXCEPT !.rl[roundKey].guessCountry = "Unknown Guess",
                   !.gs.guessCountry = "Unknown Guess"]

\* buildAnkiCardData returns card text rather than null
CardDataBuilt(s, useDefaults) ==
    /\ s.gs.currentRoundKey # NoKey
    /\ s.rl[s.gs.currentRoundKey] # Null
    /\ \/ ver = "v110" /\ useDefaults
       \/ /\ s.rl[s.gs.currentRoundKey].country # NoStr
          /\ s.rl[s.gs.currentRoundKey].guessCountry # NoStr

\* the script state after buildAnkiCardData(useDefaults)
buildAnkiCardData(s, useDefaults, dom) ==
    bdTexts(IF ver = "v110" /\ useDefaults /\ CardDataBuilt(s, useDefaults)
            THEN bdGuess(bdCountry(s, s.gs.currentRoundKey, dom.country),
                         s.gs.currentRoundKey)
            ELSE s,
            useDefaults)

\* createAnkiCard(null, useDefaults)
createAnkiCard(s, useDefaults, dom) ==
    IF CardDataBuilt(s, useDefaults)
    THEN sendNoteToAnki(buildAnkiCardData(s, useDefaults, dom),
                        s.gs.currentRoundKey)
    ELSE showNotification(s, "error")

\* v1.0.0: buildAnkiCardData, createAnkiCard(cardData) and the two flags set
\* after it
pcSend(s, roundKey) ==
    IF CardDataBuilt(s, FALSE)
    THEN [showNotification(
              sendNoteToAnki(buildAnkiCardData(s, FALSE, NoDom),
                             s.gs.currentRoundKey), "success")
             EXCEPT !.gs.cardCreatedForRound = TRUE,
                    !.rl[roundKey].cardCreated = TRUE]
    ELSE showNotification(s, "error")

pcPrompt(s, roundKey, in) ==
    IF in.guessed = NoStr THEN showNotification(s, "info")
    ELSE pcSend(pcClues(pcTexts(pcGuess(s, roundKey, in.guessed), in),
                        roundKey),
                roundKey)

pcRecord(s, roundKey, in) ==
    IF s.rl[roundKey] = Null THEN showNotification(s, "error")
    ELSE IF s.rl[roundKey].country = NoStr /\ in.dom.country = NoStr
    THEN showNotification(s, "error")
    ELSE pcPrompt([pcCountry(s, roundKey, in.dom.country)
                      EXCEPT !.prompt = roundKey, !.card.shown = TRUE],
                  roundKey, in)

\* v1.0.0. in: [confirm, dom, guessed, clues, reminder]: the answer to
\* confirm(), the page as extractCountryFromDOM sees it, the answers to the
\* three prompt() dialogs
prepareAndCreateAnkiCard(s, in) ==
    IF ~settings.enableAnkiIntegration THEN showNotification(s, "info")
    ELSE IF isInActiveRound THEN showNotification(s, "error")
    ELSE IF s.gs.currentRoundKey = NoKey THEN showNotification(s, "error")
    ELSE IF s.gs.cardCreatedForRound /\ ~in.confirm
    THEN showNotification(s, "info")
    ELSE pcRecord(pcConfirm(s), s.gs.currentRoundKey, in)

\* the user leaves the clues and the reminder blank
CardInputs ==
    [confirm : BOOLEAN, dom : DomInputs, guessed : {NoStr, "United States"},
     clues : {""}, reminder : {""}]

ccRecord(s, roundKey, dom) ==
    IF s.rl[roundKey] = Null THEN showNotification(s, "error")
    ELSE IF s.rl[roundKey].country = NoStr /\ dom.country = NoStr
    THEN showNotification(s, "error")
    ELSE promptForCardCreation(pcCountry(s, roundKey, dom.country))

\* v1.1.0. in: [instant, confirm, dom]: the button pressed, the answer to
\* confirm(), the page as extractCountryFromDOM sees it
createCardWithOptions(s, in) ==
    IF ~settings.enableAnkiIntegration THEN showNotification(s, "info")
    ELSE IF isInActiveRound THEN showNotification(s, "error")
    ELSE IF s.gs.currentRoundKey = NoKey THEN showNotification(s, "error")
    ELSE IF s.gs.cancelCardCreation THEN s
    ELSE IF s.gs.cardCreatedForRound /\ ~in.confirm
    THEN showNotification(s, "info")
    ELSE IF in.instant \/ settings.instantAddEnabled
    THEN createAnkiCard(pcConfirm(s), TRUE, in.dom)
    ELSE ccRecord(pcConfirm(s), s.gs.currentRoundKey, in.dom)

OptionInputs == [instant : BOOLEAN, confirm : BOOLEAN, dom : DomInputs]

\* v1.1.0, the overlay's Cancel button
handleCancel(s) ==
    showNotification([s EXCEPT !.gs.cancelCardCreation = TRUE,
                               !.prompt = NoKey, !.card = NoRequest], "info")

\* v1.1.0, the overlay's Instant Add button
handleInstantAdd(s, dom) ==
    createAnkiCard([s EXCEPT !.prompt = NoKey], TRUE, dom)

\* v1.1.0, the overlay's Create Card button: roundData is the record the
\* prompt was opened for
hcGuess(s, roundKey, guessValue) ==
    IF guessValue = NoStr THEN s
    ELSE IF s.rl[roundKey] = Null
    THEN [s EXCEPT !.gs.guessCountry = guessValue]
    ELSE [s EXCEPT !.gs.guessCountry = guessValue,
                   !.rl[roundKey].guessCountry = guessValue,
                   !.rl[roundKey].guessCountryData =
                       pcGuessData(s, roundKey, guessValue)]

\* in: [guess, clues, reminder]: the values of the overlay's three inputs
handleCreateCard(s, in) ==
    createAnkiCard([hcTexts(hcGuess(s, s.prompt, in.guess), in)
                       EXCEPT !.prompt = NoKey],
                   FALSE, NoDom)

\* the user leaves the clues and the reminder blank
CreateInputs ==
    [guess : {NoStr, "United States"}, clues : {""}, reminder : {""}]

akRecord(s, roundKey) ==
    IF s.rl[roundKey] # Null
    THEN [s EXCEPT !.rl[roundKey].cardCreated = TRUE]
    ELSE s

\* the second .then of sendNoteToAnki
AnkiCompletion(s, c, ok) ==
    IF ~ok THEN s
    ELSE [akRecord([s EXCEPT !.gs.cardCreatedForRound = TRUE], c.roundKey)
             EXCEPT !.gs.userMissedClues = "", !.gs.userReminder = ""]

-----------------------------------------------------------------------------
(* Initial state: the script after init() on a page outside a game *)

InitScript ==
    /\ ver \in {"v100", "v110"}
    /\ loaded = TRUE
    /\ page = [inGame |-> FALSE, screen |-> "blank", round |-> 0, games |-> 0,
               roundInUrl |-> FALSE, path |-> NoStr]
    /\ gameState = InitGameState
    /\ roundLocations = [k \in Keys |-> Null]
    /\ timeouts = {}
    /\ intervals = {"poll", "cleanup"}
    /\ calls = {}
    /\ reading = {}
    /\ svHooked = FALSE
    /\ promptFor = NoKey
    /\ cardRequest = NoRequest
    /\ hreRuns = [k \in Keys |-> 0]
    /\ responses = 0

Init == InitScript /\ probe = Null

Script ==
    <<gameState, roundLocations, timeouts, calls, reading, svHooked,
      promptFor, cardRequest>>

(* The player and the host page *)

\* the first path segments for which isInGame holds
GamePaths == {"game", "challenge", "duel", "battle-royale"}

EnterGameOn(Paths) ==
    /\ loaded /\ ~page.inGame /\ page.games < MaxGames
    /\ \E path \in Paths :
          page' = [inGame |-> TRUE, screen |-> "blank", round |-> 1,
                   games |-> page.games + 1, roundInUrl |-> FALSE,
                   path |-> path]
    /\ UNCHANGED <<ver, loaded, intervals, probe, hreRuns, responses, Script>>

\* a standard game
EnterGame == EnterGameOn({"game"})

StartPlay ==
    /\ loaded /\ page.inGame /\ page.screen = "blank"
    /\ page' = [page EXCEPT !.screen = "play"]
    /\ UNCHANGED <<ver, loaded, intervals, probe, hreRuns, responses, Script>>

\* the result screen of the round appears; the count of handleRoundEnd runs
\* for this round end starts at zero
ShowResult ==
    /\ loaded /\ page.inGame /\ page.screen = "play"
    /\ page' = [page EXCEPT !.screen = "result"]
    /\ hreRuns' = [hreRuns EXCEPT ![page.round] = 0]
    /\ UNCHANGED <<ver, loaded, intervals, probe, responses, Script>>

NextRound ==
    /\ loaded /\ page.inGame /\ page.screen = "result"
    /\ page.round < MaxRound
    /\ page' = [page EXCEPT !.screen = "play", !.round = @ + 1]
    /\ UNCHANGED <<ver, loaded, intervals, probe, hreRuns, responses, Script>>

\* the address gains or loses its /round/<n> segment while the same round
\* stays on screen
UrlChange ==
    /\ loaded /\ page.inGame /\ page.screen # "blank"
    /\ page' = [page EXCEPT !.roundInUrl = ~@]
    /\ UNCHANGED <<ver, loaded, intervals, probe, hreRuns, responses, Script>>

LeaveGame ==
    /\ loaded /\ page.inGame
    /\ page' = [page EXCEPT !.inGame = FALSE, !.screen = "blank", !.round = 0,
                            !.roundInUrl = FALSE, !.path = NoStr]
    /\ UNCHANGED <<ver, loaded, intervals, probe, hreRuns, responses, Script>>

(* Timers *)

NoSource == [next |-> Null, dom |-> [url |-> Null, text |-> Null]]

NoCard ==
    [confirm |-> FALSE, dom |-> NoDom, guessed |-> NoStr, clues |-> "",
     reminder |-> ""]

LoopInputs(Sources) == [src : Sources, dom : {NoDom}, random : BOOLEAN]

\* Sources: what the page may expose to interceptLocationData
PollTickOn(Sources) ==
    /\ loaded /\ "poll" \in intervals
    /\ \E in \in LoopInputs(Sources) :
          Commit(IF ver = "v100" THEN updateGameState(Cur)
                 ELSE gameLoop(Cur, FALSE, in))
    /\ UNCHANGED <<ver, loaded, page, intervals, probe, responses>>

PollTick == PollTickOn(SourceInputs)

\* visibilitychange with the document visible again
VisibilityChangeOn(Sources) ==
    /\ loaded
    /\ \E in \in LoopInputs(Sources) :
          Commit(IF ver = "v100" THEN updateGameState(Cur)
                 ELSE gameLoop(Cur, TRUE, in))
    /\ UNCHANGED <<ver, loaded, page, intervals, probe, responses>>

VisibilityChange == VisibilityChangeOn(SourceInputs)

\* the tracked timeouts; the tracked intervals are cleared by the action
cleanup(s) == ClearTrackedTimeouts(s)

\* the 60 s interval whose callback is cleanup
CleanupTick ==
    /\ loaded /\ "cleanup" \in intervals
    /\ Commit(cleanup(Cur))
    /\ intervals' = {}
    /\ UNCHANGED <<ver, loaded, page, probe, responses>>

\* beforeunload runs cleanup; the page and the script's state then go
Unload ==
    /\ loaded
    /\ loaded' = FALSE
    /\ intervals' = {}
    /\ page' = [page EXCEPT !.inGame = FALSE, !.screen = "blank", !.round = 0,
                            !.roundInUrl = FALSE, !.path = NoStr]
    /\ gameState' = InitGameState
    /\ roundLocations' = [k \in Keys |-> Null]
    /\ timeouts' = {}
    /\ calls' = {}
    /\ reading' = {}
    /\ svHooked' = FALSE
    /\ promptFor' = NoKey
    /\ cardRequest' = NoRequest
    /\ hreRuns' = [k \in Keys |-> 0]
    /\ UNCHANGED <<ver, probe, responses>>

tcAutoCard(s) ==
    IF settings.automaticCards
    THEN AddTimer(s, Timer("autoCard", TRUE, generateRoundKey))
    ELSE s

\* the callback of a timer of kind t.kind, the timer itself already gone
\* from the pending set of s
TimeoutCallback(s, t, in) ==
    IF t.kind = "roundEnd" /\ ver = "v100"
    THEN tcAutoCard(handleRoundEnd(s, in.dom))
    ELSE IF t.kind = "roundEnd"
    THEN [handleRoundEnd(s, in.dom) EXCEPT !.gs.isProcessingRound = FALSE]
    ELSE IF t.kind = "autoCard"
    THEN prepareAndCreateAnkiCard(BeginRequest(s, "auto", in.card.dom),
                                  in.card)
    ELSE IF t.kind = "prompt"
    THEN promptForCardCreation(BeginRequest(s, "auto", in.dom))
    ELSE IF t.kind = "locData" THEN interceptLocationData(s, in.src)
    ELSE [s EXCEPT !.gs.isProcessingRound = FALSE]

\* what the callback of a timer of this kind reads from its environment
TimeoutInputs(kind, Sources) ==
    [src : IF kind = "locData" THEN Sources ELSE {NoSource},
     dom : IF kind = "roundEnd" THEN DomInputs ELSE {NoDom},
     card : IF kind = "autoCard" THEN CardInputs ELSE {NoCard}]

TimeoutFireOn(Sources) ==
    /\ loaded
    /\ \E t \in timeouts : \E in \in TimeoutInputs(t.kind, Sources) :
          Commit(TimeoutCallback([Cur EXCEPT !.timeouts = @ \ {t}], t, in))
    /\ UNCHANGED <<ver, loaded, page, intervals, probe, responses>>

TimeoutFire == TimeoutFireOn(SourceInputs)

(* Intercepted responses and hooks *)

\* Inputs: the metadata bodies the map provider may return
MapsResponseOn(Inputs) ==
    /\ loaded /\ responses < MaxResponses /\ page.inGame
    /\ \E maps \in Inputs :
          Commit(IF ver = "v100" THEN processGoogleMapsResponse100(Cur, maps)
                 ELSE processGoogleMapsResponse110(Cur, maps))
    /\ responses' = responses + 1
    /\ UNCHANGED <<ver, loaded, page, intervals, probe>>

MapsResponse == MapsResponseOn(MapsInputs)

\* Inputs: the response bodies the game API may return
ApiResponseOn(Inputs) ==
    /\ loaded /\ responses < MaxResponses /\ page.inGame
    /\ \E data \in Inputs : Commit(processGeoGuessrApiResponse(Cur, data))
    /\ responses' = responses + 1
    /\ UNCHANGED <<ver, loaded, page, intervals, probe>>

ApiResponse == ApiResponseOn(ApiInputs)

\* the page loads a game API response through XMLHttpRequest or through fetch
ApiDelivery ==
    /\ loaded /\ responses < MaxResponses /\ page.inGame
    /\ \E via \in Hooks, data \in ScoredApiInputs :
          Commit(apiDelivery(Cur, via, data))
    /\ responses' = responses + 1
    /\ UNCHANGED <<ver, loaded, page, intervals, probe>>

\* v1.1.0: the MutationObserver callback and the 500 ms URL comparison
CheckForRoundTransitionOn(Sources) ==
    /\ loaded /\ ver = "v110"
    /\ \E in \in LoopInputs(Sources) :
          Commit(checkForRoundTransition(Cur, in))
    /\ UNCHANGED <<ver, loaded, page, intervals, probe, responses>>

CheckForRoundTransition == CheckForRoundTransitionOn(SourceInputs)

\* the menu's Create Card and Instant Add commands; Inputs: what the user
\* may answer to the dialogs of v1.0.0
CardRequestOn(Inputs) ==
    /\ loaded
    /\ \/ /\ ver = "v100"
          /\ \E in \in Inputs :
                Commit(prepareAndCreateAnkiCard(
                           BeginRequest(Cur, "manual", in.dom), in))
       \/ /\ ver = "v110"
          /\ \E in \in OptionInputs :
                Commit(createCardWithOptions(
                           BeginRequest(Cur, IF in.instant THEN "instant"
                                             ELSE "manual", in.dom), in))
    /\ UNCHANGED <<ver, loaded, page, intervals, probe, responses>>

CardRequest == CardRequestOn(CardInputs)

\* v1.1.0: the buttons of the overlay while it is shown
PromptCancel ==
    /\ loaded /\ ver = "v110" /\ promptFor # NoKey
    /\ Commit(handleCancel(Cur))
    /\ UNCHANGED <<ver, loaded, page, intervals, probe, responses>>

PromptInstantAdd ==
    /\ loaded /\ ver = "v110" /\ promptFor # NoKey
    /\ \E dom \in DomInputs :
          Commit(handleInstantAdd(BeginRequest(Cur, "instant", dom), dom))
    /\ UNCHANGED <<ver, loaded, page, intervals, probe, responses>>

\* Inputs: what the user may enter in the overlay
PromptCreateCardOn(Inputs) ==
    /\ loaded /\ ver = "v110" /\ promptFor # NoKey
    /\ \E in \in Inputs, dom \in DomInputs :
          Commit(handleCreateCard(BeginRequest(Cur, "manual", dom), in))
    /\ UNCHANGED <<ver, loaded, page, intervals, probe, responses>>

PromptCreateCard == PromptCreateCardOn(CreateInputs)

\* v1.1.0: a panorama is created or moved after the constructor was wrapped
StreetViewMove ==
    /\ loaded /\ responses < MaxResponses /\ ver = "v110" /\ svHooked
    /\ page.inGame
    /\ \E position \in {Paris} : Commit(StreetViewPosition(Cur, position))
    /\ responses' = responses + 1
    /\ UNCHANGED <<ver, loaded, page, intervals, probe>>

geoRest(s, c, result) ==
    IF c.cont = "gcfc110" THEN GeocodeCompletion110(s, c, result)
    ELSE IF c.cont = "maps100"
    THEN MapsContinuation100(s, result, c.coord, "geocode")
    ELSE IF c.cont = "guess100"
    THEN GuessContinuation100(s, c.roundKey, result)
    ELSE ActualContinuation100(s, c.roundKey, result, "geocode")

\* the continuation of request c on its reply (ok) or on its failure or
\* timeout (~ok); s no longer holds c as pending
Completion(s, c, ok) ==
    IF c.kind = "geocode" /\ c.stage = "nominatim"
    THEN IF ok
         THEN AddCall(s, [c EXCEPT !.stage = "rest",
                            !.code = toUpperCase(
                                         Nominatim(c.coord).country_code)])
         ELSE s
    ELSE IF c.kind = "geocode" THEN geoRest(s, c, GeocodeResult(c.coord, ok))
    ELSE IF c.kind = "countryInfo" THEN CountryInfoCompletion(s, c, ok)
    ELSE IF c.kind = "overview" THEN OverviewCompletion(s, c, ok)
    ELSE IF c.stage = "modelFieldNames"
    THEN IF ok THEN AddCall(s, [c EXCEPT !.stage = "addNote"]) ELSE s
    ELSE AnkiCompletion(s, c, ok)

CallReply ==
    /\ loaded
    /\ \E c \in calls, ok \in BOOLEAN :
          Commit(Completion([Cur EXCEPT !.calls = @ \ {c}], c, ok))
    /\ UNCHANGED <<ver, loaded, page, intervals, probe, responses>>

\* how the request is sent: safeApiCall (fetch raced against a setTimeout),
\* safeGmXhr (GM_xmlhttpRequest with a setTimeout and its own timeout), or a
\* bare fetch (v1.1.0 getCountryInfo)
Transport(c) ==
    IF c.kind = "anki" THEN "safeGmXhr"
    ELSE IF c.kind = "countryInfo" THEN "fetch"
    ELSE "safeApiCall"

\* the response headers of a fetch arrive: the first .then runs, which in
\* safeApiCall clears the timeout, and response.json() starts reading the body
HeadersArrive ==
    /\ loaded
    /\ \E c \in calls :
          /\ Transport(c) # "safeGmXhr"
          /\ Commit([Cur EXCEPT !.calls = @ \ {c}, !.reading = @ \cup {c}])
    /\ UNCHANGED <<ver, loaded, page, intervals, probe, responses>>

\* response.json() settles: the body parsed (ok) or the read failed (~ok)
BodyComplete ==
    /\ loaded
    /\ \E c \in reading, ok \in BOOLEAN :
          Commit(Completion([Cur EXCEPT !.reading = @ \ {c}], c, ok))
    /\ UNCHANGED <<ver, loaded, page, intervals, probe, responses>>

\* a setTimeout of the transport is pending for the request
TimeoutArmed(c) ==
    /\ c \in calls
    /\ Transport(c) # "fetch"

Next ==
    \/ EnterGame \/ StartPlay \/ ShowResult \/ NextRound \/ LeaveGame
    \/ PollTick \/ VisibilityChange \/ CleanupTick \/ Unload \/ TimeoutFire
    \/ MapsResponse \/ ApiResponse \/ CheckForRoundTransition
    \/ StreetViewMove \/ CallReply
    \/ CardRequest \/ PromptCancel \/ PromptInstantAdd \/ PromptCreateCard
    \/ HeadersArrive \/ BodyComplete \/ UrlChange

Spec == Init /\ [][Next]_vars

-----------------------------------------------------------------------------
(* The same script on a page that exposes no coordinates and whose requests
   go unobserved: the round lifecycle and its timers alone *)

Quiet == {NoSource}

NextLifecycle ==
    \/ EnterGame \/ StartPlay \/ ShowResult \/ NextRound \/ LeaveGame
    \/ PollTickOn(Quiet) \/ VisibilityChangeOn(Quiet) \/ CleanupTick
    \/ Unload \/ TimeoutFireOn(Quiet) \/ CheckForRoundTransitionOn(Quiet)
    \/ CallReply

SpecLifecycle == Init /\ [][NextLifecycle]_vars

(* The same script while rounds are played through without leaving: the
   intercepted responses and the requests they start *)

NextFacts ==
    \/ EnterGame \/ StartPlay \/ ShowResult \/ NextRound
    \/ PollTick \/ MapsResponse \/ ApiResponse \/ CallReply

SpecFacts == Init /\ [][NextFacts]_vars

(* The same script while rounds are played through with the page watched by
   the observer callbacks alone: the round-end timers, a game API response
   outside the override table, and the replies to the requests *)

PlainApiInputs == {[guess |-> Paris, actual |-> NewYork, code |-> NoStr]}

NextLate ==
    \/ EnterGame \/ StartPlay \/ ShowResult \/ NextRound
    \/ ApiResponseOn(PlainApiInputs) \/ CallReply
    \/ TimeoutFireOn(Quiet) \/ CheckForRoundTransitionOn(Quiet)

SpecLate == Init /\ [][NextLate]_vars

(* The same script while one round is played through and cards are asked
   for: the poll and the round-end timers, the game API responses, the card
   commands and the overlay's buttons, and the
   replies to the requests *)

NextCards ==
    \/ EnterGame \/ StartPlay \/ ShowResult
    \/ PollTickOn(Quiet) \/ TimeoutFireOn(Quiet)
    \/ ApiResponseOn(ApiInputs) \/ CallReply
    \/ CardRequest \/ PromptCancel \/ PromptInstantAdd \/ PromptCreateCard

SpecCards == Init /\ [][NextCards]_vars

(* The same script during one game session whose address may or may not carry
   the round number: the round lifecycle and the round adapters *)

NextAdapters ==
    \/ EnterGame \/ StartPlay \/ ShowResult \/ NextRound \/ UrlChange
    \/ PollTickOn(Quiet) \/ TimeoutFireOn(Quiet)
    \/ CheckForRoundTransitionOn(Quiet)

SpecAdapters == Init /\ [][NextAdapters]_vars

(* The same script while a game is played to the end, with the result screen
   as the source of the records' countries: the records and the transitions
   between rounds and out of the game. Round keys carry the game id, so the
   records of one game are those of one session. *)

\* the first game of the session begins
FirstGame == page.games = 0 /\ EnterGame

\* the player leaves from the result screen of the last round
FinishGame ==
    /\ page.screen = "result" /\ page.round = MaxRound
    /\ LeaveGame

NextRecords ==
    \/ FirstGame \/ StartPlay \/ ShowResult \/ NextRound \/ FinishGame
    \/ PollTickOn(Quiet) \/ TimeoutFireOn(Quiet)
    \/ CheckForRoundTransitionOn(Quiet)

SpecRecords == Init /\ [][NextRecords]_vars

(* The same script while one round is played in a game of any type: the
   round lifecycle and its timers *)

NextModes ==
    \/ EnterGameOn(GamePaths) \/ StartPlay \/ ShowResult
    \/ PollTickOn(Quiet) \/ TimeoutFireOn(Quiet)
    \/ CheckForRoundTransitionOn(Quiet)

SpecModes == Init /\ [][NextModes]_vars

(* The same script while rounds are played and the game API answers with
   bodies that may be unparsable or lack the rounds *)

AnyApiInputs == ApiInputs \cup {Unparsable, NoRounds}

NextPayloads ==
    \/ EnterGame \/ StartPlay \/ ShowResult \/ NextRound
    \/ PollTickOn(Quiet) \/ ApiResponseOn(AnyApiInputs) \/ CallReply

SpecPayloads == Init /\ [][NextPayloads]_vars

(* The same script while the rounds of one game are played one after another,
   each round at a place of its own: the game API responses carry the place
   of the round on the page, and the replies to the requests they start may
   arrive at any later time *)

\* where round n of the game is played
RoundActual(n) == IF n = 1 THEN NewYork ELSE Paris

RoundCountry(n) == Nominatim(RoundActual(n)).country

\* the body of /api/v3/games/<id> while round n is on the page, with or
\* without the round's countryCode
RoundApiInputs(n) ==
    [guess : {Paris}, actual : {RoundActual(n)},
     code : {NoStr, toUpperCase(Nominatim(RoundActual(n)).country_code)}]

NextRounds ==
    \/ FirstGame \/ StartPlay \/ ShowResult \/ NextRound
    \/ PollTickOn(Quiet)
    \/ ApiResponseOn(RoundApiInputs(page.round)) \/ CallReply

SpecRounds == Init /\ [][NextRounds]_vars

(* The same script while rounds are played and the page loads its game API
   responses through either transport *)

NextDelivery ==
    \/ FirstGame \/ StartPlay \/ ShowResult \/ NextRound
    \/ PollTickOn(Quiet) \/ ApiDelivery \/ CallReply

SpecDelivery == Init /\ [][NextDelivery]_vars

(* The same script while the rounds of one game are played, followed by the
   poll alone, the game API answers on the result screens and cards are asked
   for from the menu, the replies of the flashcard software arriving at any
   later time *)

NextCarded ==
    \/ FirstGame \/ StartPlay \/ ShowResult \/ NextRound
    \/ PollTickOn(Quiet) \/ ApiResponseOn(PlainApiInputs)
    \/ CardRequest \/ CallReply

SpecCarded == Init /\ [][NextCarded]_vars

(* The card dialogs with what a user may enter as missed clues and as       *)
(* reminder: nothing, blanks, or a text; AnkiConnect accepts or refuses.    *)
TypedCardInputs ==
    [confirm : BOOLEAN, dom : DomInputs, guessed : {"United States"},
     clues : {"", "  ", "bollards"}, reminder : {"", "yellow plates"}]

TypedCreateInputs ==
    [guess : {"United States"}, clues : {"", "  ", "bollards"},
     reminder : {"", "yellow plates"}]

NextNotes ==
    \/ FirstGame \/ StartPlay \/ ShowResult
    \/ PollTickOn(Quiet) \/ ApiResponseOn(PlainApiInputs)
    \/ CardRequestOn(TypedCardInputs)
    \/ PromptCreateCardOn(TypedCreateInputs) \/ CallReply

SpecNotes == Init /\ [][NextNotes]_vars

(* The same script and the network: the intercepted responses, the requests
   they start, and each request's reply, failure or timeout, its response
   headers and its body *)

NextNetwork ==
    \/ EnterGame \/ StartPlay \/ ShowResult
    \/ MapsResponse \/ ApiResponse \/ CardRequest
    \/ CallReply \/ HeadersArrive \/ BodyComplete

SpecNetwork == Init /\ [][NextNetwork]_vars

(* The same script while one round is played on a page whose embedded data,
   URL, map metadata and game API responses may carry a latitude beyond the
   pole: every adapter that stores a location *)

Beyond == [lat |-> 95000000, lng |-> 2350000]

BeyondSources ==
    {NoSource,
     [next |-> [coord |-> Beyond, code |-> NoStr],
      dom |-> [url |-> Null, text |-> Null]],
     [next |-> Null, dom |-> [url |-> Beyond, text |-> Null]],
     [next |-> Null, dom |-> [url |-> Null, text |-> Beyond]]}

BeyondApiInputs ==
    {[guess |-> Beyond, actual |-> Beyond, code |-> NoStr],
     [guess |-> Paris, actual |-> NewYork, code |-> NoStr]}

BeyondMapsInputs == {[hasPano |-> TRUE, coord |-> Beyond]}

NextSources ==
    \/ EnterGame \/ StartPlay \/ ShowResult
    \/ PollTickOn(BeyondSources) \/ TimeoutFireOn(BeyondSources)
    \/ MapsResponseOn(BeyondMapsInputs) \/ ApiResponseOn(BeyondApiInputs)
    \/ CallReply

SpecSources == Init /\ [][NextSources]_vars

-----------------------------------------------------------------------------
(* The override lookup and the synchronous prefix of country resolution,
   applied to coordinates on and around the edges of the tolerance squares *)

ProbeSpan == 1

\* the table of the script, and the same table behind an entry on the same
\* point that gives no tolerance
ProbeTables ==
    {COUNTRY_OVERRIDES,
     <<[COUNTRY_OVERRIDES[1] EXCEPT !.tolerance = 0, !.country = "Honduras",
                                    !.countryCode = "HN"]>>
         \o COUNTRY_OVERRIDES}

ProbeOffsets ==
    {0} \cup {sgn * (t + d) : sgn \in {-1, 1}, t \in {100000, 200000},
                              d \in (0 - ProbeSpan)..ProbeSpan}

ProbeLats == {Spot.lat + o : o \in ProbeOffsets} \cup {Paris.lat, NaNv}

ProbeLngs == {Spot.lng + o : o \in ProbeOffsets} \cup {Paris.lng, NaNv}

InitProbe ==
    /\ InitScript
    /\ probe \in [lat : ProbeLats, lng : ProbeLngs, isGuess : BOOLEAN,
                  table : ProbeTables, stage : {"input"}, override : {Null},
                  start : {Null}]

ProbeOverride ==
    /\ probe.stage = "input"
    /\ probe' = [probe EXCEPT
                   !.stage = "checked",
                   !.override =
                       IF probe.table = COUNTRY_OVERRIDES
                       THEN checkCountryOverride(probe.lat, probe.lng)
                       ELSE OverrideFrom(probe.table, 1, probe.lat, probe.lng)]
    /\ UNCHANGED <<ver, loaded, page, intervals, hreRuns, responses, Script>>

ProbeResolve ==
    /\ probe.stage = "input" /\ probe.table = COUNTRY_OVERRIDES
    /\ probe' = [probe EXCEPT
                   !.stage = "resolved",
                   !.start =
                       IF ver = "v100"
                       THEN ResolveStart100(probe.lat, probe.lng)
                       ELSE ResolveStart110(probe.lat, probe.lng,
                                            probe.isGuess)]
    /\ UNCHANGED <<ver, loaded, page, intervals, hreRuns, responses, Script>>

NextProbe == ProbeOverride \/ ProbeResolve

SpecProbe == InitProbe /\ [][NextProbe]_vars

-----------------------------------------------------------------------------
(* The pure helpers applied to inputs drawn from small sets: clue synthesis on
   records, the language-array comparison on arrays, and the coordinate
   constructor on numbers *)

MaxLangs == 2
MaxHooks == 2

ClueCountries == {NoStr, "France", "United States"}

ClueInfos ==
    {AdditionalInfoOf(RestCountries("FR")),
     AdditionalInfoOf(RestCountries("US")),
     AdditionalInfoOf(RestCountries("AU")),
     [AdditionalInfoOf(RestCountries("FR"))
         EXCEPT !.languages = <<"French", "English">>],
     [AdditionalInfoOf(RestCountries("US"))
         EXCEPT !.languages = <<"English", "French">>],
     UnknownInfo,
     DomCountryData("France").additionalInfo,
     DomGuessData("France").additionalInfo}

ClueData ==
    {Null} \cup {[country |-> "France", countryCode |-> NoStr,
                  additionalInfo |-> i] : i \in ClueInfos}

ClueOverviews ==
    {Null, OverviewData, [region |-> "Ile-de-France"],
     [coverage |-> "official"]}

ClueRecords ==
    {[EmptyRecord EXCEPT !.country = c, !.guessCountry = g,
                         !.countryData = a, !.guessCountryData = gd,
                         !.locationOverview = ov] :
        c \in ClueCountries, g \in ClueCountries, a \in ClueData,
        gd \in ClueData, ov \in ClueOverviews}

Languages == {"English", "French"}

LanguageArrays ==
    UNION {[1..n -> Languages] : n \in 0..MaxLangs}

CoordinateInputs ==
    {NaNv, Infinity, 0 - Infinity, 0, 48850000, 90000000, 90000001,
     -90000001, 180000000, 180000001, -180000001}

\* properties of an enrichment entry: missing, empty, or with one value
Entries ==
    [tld : {Missing, Given(<<>>), Given(<<".fr">>)},
     car : {[has |-> FALSE, side |-> Missing], [has |-> TRUE, side |-> Missing],
            [has |-> TRUE, side |-> Given(<<"right">>)]},
     languages : {Missing, Given(<<>>), Given(<<"French">>)},
     currencies : {Missing, Given(<<>>), Given(<<"Euro">>)},
     continents : {Missing, Given(<<>>), Given(<<"Europe">>)},
     capital : {Missing, Given(<<>>), Given(<<"Paris">>)}]

\* what the enrichment request resolves to: null, an object that is not an
\* array (an error body), an empty array, an array with an entry
RestBodies ==
    {[kind |-> "null", items |-> <<>>], [kind |-> "object", items |-> <<>>],
     [kind |-> "array", items |-> <<>>]}
    \cup {[kind |-> "array", items |-> <<e>>] : e \in Entries}

\* A request of the page as the hooks see it: sent with fetch or with an
\* XMLHttpRequest, to the game API or elsewhere, fulfilled (load) or rejected
\* (error), its body JSON or not, the processing of the body throwing or
\* not, with the hooks installed `hooks` times
Exchanges ==
    [transport : {"fetch", "xhr"}, api : BOOLEAN,
     settled : {"fulfilled", "rejected"}, json : BOOLEAN, throws : BOOLEAN,
     hooks : 1 .. MaxHooks]

\* what the page's own code gets from the unpatched fetch or XMLHttpRequest:
\* the outcome, a response whose body has not been read, and no error raised
\* outside the page's code
Unobserved(x) == [outcome |-> x.settled, bodyUsed |-> FALSE, uncaught |-> 0]

\* the same wrapper reading the response itself instead of a clone
fetchWrapperNoClone(x, inner) ==
    IF inner.outcome = "rejected" THEN inner
    ELSE IF ~x.api THEN inner
    ELSE IF inner.bodyUsed THEN [inner EXCEPT !.outcome = "rejected"]
    ELSE [inner EXCEPT !.bodyUsed = TRUE]

\* window.fetch as interceptFetch replaces it, around what the fetch it
\* wraps gives: a rejection skips the .then callback; response.clone() is a
\* TypeError on a body already read, which rejects the promise the page
\* holds; clone.json() and the processing run on the clone under .catch
fetchWrapper(x, inner) ==
    IF inner.outcome = "rejected" THEN inner
    ELSE IF ~x.api THEN inner
    ELSE IF inner.bodyUsed THEN [inner EXCEPT !.outcome = "rejected"]
    ELSE inner

\* XMLHttpRequest.prototype.open as setupXHRInterception replaces it: a load
\* listener whose body is one try/catch, then the original open
xhrWrapper(x, inner) == inner

RECURSIVE Intercepted(_, _)
\* what the page's code gets through n installed wrappers
Intercepted(x, n) ==
    IF n = 0 THEN Unobserved(x)
    ELSE IF x.transport = "fetch" THEN fetchWrapper(x, Intercepted(x, n - 1))
    ELSE xhrWrapper(x, Intercepted(x, n - 1))

\* a number the page may show for the round, or none
RoundNumbers == {NoKey} \cup (1 .. MaxRound)

PageViews ==
    [inGame : BOOLEAN, path : GamePaths, url : RoundNumbers, indicator : RoundNumbers,
     score : RoundNumbers]

InitPure ==
    /\ InitScript
    /\ probe \in
          [kind : {"clues"}, roundData : ClueRecords, done : {FALSE},
           missedClues : {<<>>}]
          \cup [kind : {"arrays"}, arr1 : LanguageArrays,
                arr2 : LanguageArrays, done : {FALSE}, same : {FALSE},
                swapped : {FALSE}]
          \cup [kind : {"coordinates"}, lat : CoordinateInputs,
                lng : CoordinateInputs, done : {FALSE}, result : {Null}]
          \cup [kind : {"enrichment"}, coord : {Paris, NewYork},
                restData : RestBodies, done : {FALSE}, result : {Null}]
          \cup [kind : {"round"}, view : PageViews, done : {FALSE},
                number : {NoKey}]
          \cup [kind : {"exchange"}, x : Exchanges, done : {FALSE},
                got : {Null}]

\* prepareCountryClues on the record
ProbeClues ==
    /\ probe.kind = "clues" /\ ~probe.done
    /\ probe' = [probe EXCEPT !.done = TRUE,
                              !.missedClues = CluesOf(probe.roundData)]
    /\ UNCHANGED <<ver, loaded, page, intervals, hreRuns, responses, Script>>

\* arraysHaveSameElements on the two arrays, in both orders
ProbeArrays ==
    /\ probe.kind = "arrays" /\ ~probe.done
    /\ probe' = [probe EXCEPT
                   !.done = TRUE,
                   !.same = arraysHaveSameElements(probe.arr1, probe.arr2),
                   !.swapped = arraysHaveSameElements(probe.arr2, probe.arr1)]
    /\ UNCHANGED <<ver, loaded, page, intervals, hreRuns, responses, Script>>

\* sanitizeCoordinates on the two numbers
ProbeSanitize ==
    /\ probe.kind = "coordinates" /\ ~probe.done
    /\ probe' = [probe EXCEPT
                   !.done = TRUE,
                   !.result = sanitizeCoordinates(probe.lat, probe.lng)]
    /\ UNCHANGED <<ver, loaded, page, intervals, hreRuns, responses, Script>>

\* the resolution function from the enrichment request on
ProbeEnrichment ==
    /\ probe.kind = "enrichment" /\ ~probe.done
    /\ probe' = [probe EXCEPT
                   !.done = TRUE,
                   !.result = EnrichedResult(probe.coord, probe.restData)]
    /\ UNCHANGED <<ver, loaded, page, intervals, hreRuns, responses, Script>>

\* getCurrentRoundNumber on the page
ProbeRoundNumber ==
    /\ probe.kind = "round" /\ ~probe.done
    /\ probe' = [probe EXCEPT !.done = TRUE,
                              !.number = CurrentRoundNumber(probe.view)]
    /\ UNCHANGED <<ver, loaded, page, intervals, hreRuns, responses, Script>>

\* a request of the page through the installed hooks
ProbeExchange ==
    /\ probe.kind = "exchange" /\ ~probe.done
    /\ probe' = [probe EXCEPT !.done = TRUE,
                              !.got = Intercepted(probe.x, probe.x.hooks)]
    /\ UNCHANGED <<ver, loaded, page, intervals, hreRuns, responses, Script>>

NextPure ==
    \/ ProbeClues \/ ProbeArrays \/ ProbeSanitize \/ ProbeEnrichment
    \/ ProbeRoundNumber \/ ProbeExchange

SpecPure == InitPure /\ [][NextPure]_vars

-----------------------------------------------------------------------------
(* The button widget from the evaluation of the script on: the document's
   readiness, the iframe, the listeners and timers that init() and the UI
   re-creations register, and the messages of the iframe *)

MaxRemovals == 2

\* document.readyState when the script is evaluated: v1.1.0 asks for
\* @run-at document-start, v1.0.0 names no @run-at and runs at document-idle
Documents ==
    IF ver = "v110" THEN {"loading"} ELSE {"interactive", "complete"}

\* handlers: the listeners for "message" on window; persistence: the
\* intervals of setupPersistence; observers: the MutationObservers;
\* initTimers: the pending setTimeout(init, ...); flows: the card flows the
\* last message started
Widget(readyState) ==
    [kind |-> "widget", readyState |-> readyState, container |-> FALSE,
     handlers |-> 0, persistence |-> 0, observers |-> 0, initTimers |-> 0,
     domListener |-> FALSE, removals |-> 0, action |-> NoStr, flows |-> 0]

\* document.body exists
Body(w) == w.readyState # "loading"

createUIContainer(w) == [w EXCEPT !.container = TRUE]

\* window.addEventListener('message', function(event) {...}): a new function
\* object at each call
setupMessageHandlers(w) == [w EXCEPT !.handlers = @ + 1]

ensureUIVisibility(w) ==
    IF ~w.container /\ Body(w)
    THEN setupMessageHandlers(createUIContainer(w))
    ELSE w

\* the callback of the interval of setupPersistence
persistenceCheck(w) ==
    IF ~w.container /\ Body(w)
    THEN setupMessageHandlers(createUIContainer(w))
    ELSE w

setupPersistence(w) == [w EXCEPT !.persistence = @ + 1]

\* the callback of the MutationObserver
observerCallback(w) ==
    IF ~w.container /\ Body(w) THEN ensureUIVisibility(w) ELSE w

\* init() on GeoGuessr, as far as the widget goes
init(w) ==
    IF Body(w)
    THEN [setupPersistence(setupMessageHandlers(createUIContainer(w)))
             EXCEPT !.observers = @ + 1]
    ELSE [w EXCEPT !.initTimers = @ + 1]

\* the last statements of the script
topLevel(w) ==
    IF w.readyState = "loading" THEN [w EXCEPT !.domListener = TRUE]
    ELSE [init(w) EXCEPT !.initTimers = @ + 1]

\* every registered handler runs on the message
onMessage(w, action) ==
    [w EXCEPT !.action = action,
              !.flows = IF action = "createCard" THEN w.handlers ELSE 0]

InitWidget ==
    /\ InitScript
    /\ probe \in {topLevel(Widget(r)) : r \in Documents}

DOMContentLoaded ==
    /\ probe.readyState = "loading"
    /\ probe' = IF probe.domListener
                THEN init([probe EXCEPT !.readyState = "interactive"])
                ELSE [probe EXCEPT !.readyState = "interactive"]
    /\ UNCHANGED <<ver, loaded, page, intervals, hreRuns, responses, Script>>

\* the listener for "load" on window
WindowLoad ==
    /\ probe.readyState = "interactive"
    /\ probe' = IF ~probe.container
                THEN init([probe EXCEPT !.readyState = "complete"])
                ELSE [probe EXCEPT !.readyState = "complete"]
    /\ UNCHANGED <<ver, loaded, page, intervals, hreRuns, responses, Script>>

InitTimeout ==
    /\ probe.initTimers > 0
    /\ probe' = init([probe EXCEPT !.initTimers = @ - 1])
    /\ UNCHANGED <<ver, loaded, page, intervals, hreRuns, responses, Script>>

PersistenceTick ==
    /\ probe.persistence > 0
    /\ probe' = persistenceCheck(probe)
    /\ UNCHANGED <<ver, loaded, page, intervals, hreRuns, responses, Script>>

MutationObserved ==
    /\ probe.observers > 0
    /\ probe' = observerCallback(probe)
    /\ UNCHANGED <<ver, loaded, page, intervals, hreRuns, responses, Script>>

\* the host page drops the iframe from the document
ContainerRemoved ==
    /\ probe.container /\ probe.removals < MaxRemovals
    /\ probe' = [probe EXCEPT !.container = FALSE, !.removals = @ + 1]
    /\ UNCHANGED <<ver, loaded, page, intervals, hreRuns, responses, Script>>

\* the iframe posts a message to its parent
UiMessage ==
    /\ probe.container
    /\ \E action \in {"uiReady", "createCard", "openSettings"} :
          probe' = onMessage(probe, action)
    /\ UNCHANGED <<ver, loaded, page, intervals, hreRuns, responses, Script>>

NextWidget ==
    \/ DOMContentLoaded \/ WindowLoad \/ InitTimeout \/ PersistenceTick
    \/ MutationObserved \/ ContainerRemoved \/ UiMessage

SpecWidget == InitWidget /\ [][NextWidget]_vars

-----------------------------------------------------------------------------
(* Properties *)

LowerCountryKinds == {"geocode", "countryInfo"}

\* C1: once a record's actual country comes from the override table, the
\* completion of a reverse-geocoding or country-code enrichment request issued
\* for that round key for the actual location leaves the record's country and
\* countryData as they are
C1_OverrideSurvivesLaterFacts ==
    [][\A c \in calls : \A k \in Keys :
          (/\ c \notin calls'
           /\ c.kind \in LowerCountryKinds /\ ~c.isGuess /\ c.key = k
           /\ roundLocations[k] # Null /\ roundLocations'[k] # Null
           /\ roundLocations[k].countrySrc = "override")
          => /\ roundLocations'[k].country = roundLocations[k].country
             /\ roundLocations'[k].countryData = roundLocations[k].countryData
      ]_vars

LowerLocationSources == {"googlemaps", "streetview", "url", "text"}

\* C2: a record's location that came from the game API is not replaced by a
\* coordinate from the map-provider response, the StreetView hook, the URL or
\* the page text
C2_ApiLocationSurvivesLowerSources ==
    [][\A k \in Keys :
          (/\ roundLocations[k] # Null /\ roundLocations'[k] # Null
           /\ roundLocations[k].locationSrc = "api"
           /\ roundLocations'[k].locationSrc \in LowerLocationSources)
          => roundLocations'[k].location = roundLocations[k].location
      ]_vars

\* the step is a game API response on the result screen that stored valid
\* guess and actual coordinates, the actual one matching no override entry
ApiRoundEndStored(k) ==
    /\ isRoundEnded /\ k = generateRoundKey
    /\ responses' = responses + 1
    /\ roundLocations'[k] # Null
    /\ roundLocations'[k].locationSrc = "api"
    /\ isValidCoordinate(roundLocations'[k].location)
    /\ isValidCoordinate(roundLocations'[k].guessLocation)
    /\ checkCountryOverride(roundLocations'[k].location.lat,
                            roundLocations'[k].location.lng) = Null

\* C3: a round-end game API response with valid actual and guess coordinates
\* outside the override table starts country resolution for both: after the
\* step each role has its request pending or its country already in the record
C3_RoundEndStartsResolution ==
    [][\A k \in Keys :
          ApiRoundEndStored(k)
          => /\ \/ roundLocations'[k].guessCountry # NoStr
                \/ \E c \in calls' : c.kind = "geocode" /\ c.isGuess
             /\ \/ roundLocations'[k].country # NoStr
                \/ \E c \in calls' : c.kind \in LowerCountryKinds /\ ~c.isGuess
      ]_vars

\* C4: while a round's result screen is visible, handleRoundEnd has run at
\* most once for that round
C4_RoundEndHandledAtMostOnce ==
    isRoundEnded => hreRuns[generateRoundKey] <= 1

RoundEndPending == \E t \in timeouts : t.kind = "roundEnd"

\* the result screen of the round is visible, the script is in the round or
\* has its round-end timer pending, and handleRoundEnd has not run yet
RoundEndOwed ==
    /\ loaded /\ isRoundEnded
    /\ hreRuns[generateRoundKey] = 0
    /\ gameState.inRound \/ RoundEndPending

\* C5: with the script in a round and the result screen visible, the run of
\* handleRoundEnd stays owed until it happens, whichever callback runs first:
\* no step on the same screen drops it
C5_RoundEndStaysOwed ==
    [][(RoundEndOwed /\ page' = page /\ loaded')
          => (RoundEndOwed' \/ hreRuns'[generateRoundKey] >= 1)]_vars

\* C6: the 1-second lifecycle poll stays scheduled for as long as the page
\* remains loaded
C6_PollStaysScheduled ==
    [][("poll" \in intervals /\ loaded') => "poll" \in intervals']_vars

SettleKinds == {"roundEnd", "autoCard", "prompt"}

\* the script detects a new round key, or that the game was left
RoundSuperseded ==
    \/ /\ gameState.currentRoundKey # NoKey
       /\ gameState'.currentRoundKey # gameState.currentRoundKey
    \/ gameState.inGame /\ ~gameState'.inGame

\* C7: when the game is left or a new round key is detected, no round-end or
\* card-prompt timer set for the previous round stays pending
C7_SupersededTimersCancelled ==
    [][\A t \in timeouts :
          (/\ t.kind \in SettleKinds
           /\ RoundSuperseded
           /\ t.sig # gameState'.currentRoundKey \/ ~gameState'.inGame)
          => t \notin timeouts'
      ]_vars

PreviousRoundKinds == {"geocode", "countryInfo", "overview"}

\* C8: once a new round has started (gameplay active under a new round key,
\* which the script has taken up), the completion of a request issued under
\* the previous round key changes no field of the previous round's record
C8_LateReplyLeavesPreviousRecord ==
    [][\A c \in calls :
          (/\ c \notin calls'
           /\ c.kind \in PreviousRoundKinds
           /\ c.key # NoKey
           /\ isInActiveRound
           /\ generateRoundKey # c.key
           /\ gameState.currentRoundKey = generateRoundKey)
          => roundLocations'[c.key] = roundLocations[c.key]
      ]_vars

\* the coordinate lies within 0.2 on both axes of (40.97989806962013, -67.5)
InGuatemalaSquare(lat, lng) ==
    Abs(lat - 40979898) <= 200000 /\ Abs(lng + 67500000) <= 200000

Resolved == probe # Null /\ probe.stage = "resolved"

YieldsEntryFact(start, entry) ==
    /\ start.short /\ start.requests = {}
    /\ start.fact # Null
    /\ start.fact.country = entry.country
    /\ start.fact.countryCode = entry.countryCode
    /\ start.fact.additionalInfo = entry.additionalInfo

Checked ==
    /\ probe # Null /\ probe.stage = "checked"
    /\ probe.lat # NaNv /\ probe.lng # NaNv

\* the entries of the table within whose tolerance (0.1 when the entry gives
\* none) the coordinate lies on both axes
Qualifying(table, lat, lng) ==
    {i \in 1..Len(table) :
        /\ Abs(lat - table[i].coordinates.lat)
              <= (IF table[i].tolerance = 0 THEN 100000
                  ELSE table[i].tolerance)
        /\ Abs(lng - table[i].coordinates.lng)
              <= (IF table[i].tolerance = 0 THEN 100000
                  ELSE table[i].tolerance)}

FirstOf(S) == CHOOSE i \in S : \A j \in S : i <= j

\* C10: checkCountryOverride returns the first table entry within whose
\* tolerance the coordinate lies on both axes (the tolerance being 0.1 when
\* the entry gives none) and null when there is none; on the script's table a
\* coordinate resolves to Guatemala exactly when it lies within 0.2 on both
\* axes of (40.97989806962013, -67.5)
C10_FirstEntryWithinTolerance ==
    Checked =>
      /\ IF Qualifying(probe.table, probe.lat, probe.lng) = {}
         THEN probe.override = Null
         ELSE probe.override =
                  probe.table[FirstOf(Qualifying(probe.table, probe.lat,
                                                 probe.lng))]
      /\ probe.table = COUNTRY_OVERRIDES
         => ((probe.override # Null /\ probe.override.country = "Guatemala")
             <=> InGuatemalaSquare(probe.lat, probe.lng))

\* the lookup matched a coordinate on the very edge of the Guatemala square
C10_EdgeMatched ==
    /\ Checked /\ probe.table = COUNTRY_OVERRIDES
    /\ probe.lat = Spot.lat + 200000 /\ probe.lng = Spot.lng - 200000
    /\ probe.override # Null /\ probe.override.country = "Guatemala"

-----------------------------------------------------------------------------
\* C11: no note is submitted for a round whose actual country came from no
\* source: whenever the latest card request handed a note to sendNoteToAnki,
\* the record's actual country at that moment came from the override table,
\* from geocoding, from the enrichment or from the page text.
C11_NoNoteWithoutCountrySource ==
    cardRequest.sent => cardRequest.source \notin {NoStr, "default"}

\* C12: a card request of any kind, made for a round that has no actual
\* country while the page text yields none, and not withdrawn by the user at
\* the confirmation dialog (the one case that ends with an informational
\* notice), ends with an error notification and without a note submitted.
C12_NoCountryEndsInError ==
    (cardRequest.kind # "none" /\ ~cardRequest.hadCountry
         /\ cardRequest.domFailed /\ cardRequest.notice # "info")
        => (cardRequest.notice = "error" /\ ~cardRequest.sent)

\* C13: with automatic cards enabled, once the card timer started by the
\* round end has run for a round with nothing resolved and no country in the
\* page text, the user has been shown an outcome: the card prompt, or a
\* notification that no card is built.
C13_AutoCardReachesOutcome ==
    (cardRequest.kind = "auto" /\ ~cardRequest.hadCountry
                               /\ cardRequest.domFailed)
        => (cardRequest.shown \/ cardRequest.notice # "none")

\* C15: a step writes a record's actual country from the page text (the
\* record's country afterwards is a page-text country that it did not hold
\* before) only if the record had no actual country before the step.
DomCountryWritten(k) ==
    /\ roundLocations'[k] # Null
    /\ roundLocations'[k].countrySrc = "dom"
    /\ \/ roundLocations[k] = Null
       \/ roundLocations[k].countrySrc # "dom"
       \/ roundLocations[k].country # roundLocations'[k].country

C15_DomCountryOnlyWhenAbsent ==
    [][\A k \in Keys :
          DomCountryWritten(k)
              => (roundLocations[k] = Null \/ roundLocations[k].country = NoStr)
      ]_vars

\* a record that existed without an actual country holds one from the page
\* text, taken while a card was asked for
C15_DomCountryTaken ==
    /\ cardRequest.kind # "none" /\ ~cardRequest.hadCountry
    /\ ~cardRequest.domFailed
    /\ \E k \in Keys : /\ roundLocations[k] # Null
                       /\ roundLocations[k].countrySrc = "dom"
                       /\ roundLocations[k].location # Null

\* C16: for a record that holds both countries, prepareCountryClues stores
\* the empty list exactly when the two country strings are equal.
Clued == probe.kind = "clues" /\ probe.done

BothCountries ==
    /\ probe.roundData.country # NoStr
    /\ probe.roundData.guessCountry # NoStr

C16_EmptyExactlyWhenEqual ==
    (Clued /\ BothCountries)
        => ((probe.missedClues = <<>>)
               <=> (probe.roundData.country = probe.roundData.guessCountry))

\* the countries differ and no test yields a clue: the list is the generic
\* clue alone
C16_OnlyGenericClue ==
    /\ Clued /\ BothCountries
    /\ probe.roundData.country # probe.roundData.guessCountry
    /\ probe.missedClues = <<"General Appearance">>

\* C17: the list holds a driving-side clue only if both sides are recorded,
\* neither is "Unknown", and they differ.
SideKnown(data) ==
    /\ data # Null
    /\ Field(data.additionalInfo, "drivingSide") \notin {"undefined", "Unknown"}

HasClue(category) ==
    \E i \in DOMAIN probe.missedClues : probe.missedClues[i] = category

C17_DrivingClueOnlyKnownSides ==
    (Clued /\ HasClue("Driving Side"))
        => /\ SideKnown(probe.roundData.countryData)
           /\ SideKnown(probe.roundData.guessCountryData)
           /\ probe.roundData.countryData.additionalInfo.drivingSide
                  # probe.roundData.guessCountryData.additionalInfo.drivingSide

\* C18: arraysHaveSameElements(a, b) is true exactly when a and b hold the
\* same set of elements, whatever their order and repetitions, and it gives
\* the same answer for (b, a).
Elements(arr) == {arr[i] : i \in DOMAIN arr}

C18_SameSetSymmetric ==
    (probe.kind = "arrays" /\ probe.done)
        => /\ probe.same = (Elements(probe.arr1) = Elements(probe.arr2))
           /\ probe.same = probe.swapped

\* C19: when the countries differ, the list is a selection of Driving Side,
\* Language, Internet TLD, Geographic Region, Coverage Type in that order,
\* and the generic clue follows it, once and last, exactly when the selection
\* has fewer than 2 clues.
ClueOrder ==
    <<"Driving Side", "Language", "Internet TLD", "Geographic Region",
      "Coverage Type">>

Rank(category) == CHOOSE i \in DOMAIN ClueOrder : ClueOrder[i] = category

IsSpecific(category) == \E i \in DOMAIN ClueOrder : ClueOrder[i] = category

InClueOrder(clues) ==
    /\ \A i \in DOMAIN clues : IsSpecific(clues[i])
    /\ \A i, j \in DOMAIN clues : i < j => Rank(clues[i]) < Rank(clues[j])

Specific(clues) == SelectSeq(clues, IsSpecific)

C19_FixedOrderAndPadding ==
    (Clued /\ BothCountries
           /\ probe.roundData.country # probe.roundData.guessCountry)
        => /\ InClueOrder(Specific(probe.missedClues))
           /\ probe.missedClues =
                  IF Len(Specific(probe.missedClues)) < 2
                  THEN Specific(probe.missedClues) \o <<"General Appearance">>
                  ELSE Specific(probe.missedClues)

\* all five clues are produced, and none is generic
C19_AllFiveClues == Clued /\ probe.missedClues = ClueOrder

\* C20: sanitizeCoordinates returns null when either input is NaN (also
\* what unparsable text parses to), Infinity or -Infinity, and for finite
\* inputs returns the pair clamped to -90..90 and -180..180.
Finite(x) == x \notin {NaNv, Infinity, 0 - Infinity}

Clamp(x, limit) ==
    IF x > limit THEN limit ELSE IF x < 0 - limit THEN 0 - limit ELSE x

C20_NonFiniteRejectedFiniteClamped ==
    (probe.kind = "coordinates" /\ probe.done)
        => IF Finite(probe.lat) /\ Finite(probe.lng)
           THEN probe.result = [lat |-> Clamp(probe.lat, 90000000),
                                lng |-> Clamp(probe.lng, 180000000)]
           ELSE probe.result = Null

\* C21: every actual location and guess location held by a round record
\* has its latitude within -90..90 and its longitude within -180..180.
Sanitized(coord) == coord = Null \/ isValidCoordinate(coord)

C21_StoredLocationsInRange ==
    \A k \in Keys :
        roundLocations[k] # Null
            => /\ Sanitized(roundLocations[k].location)
               /\ Sanitized(roundLocations[k].guessLocation)

\* C22: every request in flight, whether waiting for its response or
\* reading the response body, has a timeout pending that will settle it.
C22_EveryRequestHasTimeout ==
    \A c \in calls \cup reading : TimeoutArmed(c)

\* the enrichment gave nothing usable: no body, no first entry, or an entry
\* whose processing throws
Unusable(restData) ==
    \/ FirstEntry(restData) = Null
    \/ EntryThrows(FirstEntry(restData))

C24_IdentityIndependentOfAdapter ==
    [][/\ (page'.inGame => generateRoundKey' = page'.round)
       /\ (gameState.lastRoundId # Null
           /\ gameState'.lastRoundId # gameState.lastRoundId)
              => gameState'.lastRoundId.number # gameState.lastRoundId.number]_vars

\* C25: getCurrentRoundNumber returns 0 outside a game; in a game it returns
\* the number in the URL whenever the URL carries one, whatever the page
\* shows, and a number read from the page only when the URL carries none.
C25_UrlNumberFirst ==
    (probe.kind = "round" /\ probe.done)
        => /\ ~probe.view.inGame => probe.number = 0
           /\ (probe.view.inGame /\ probe.view.url # NoKey)
                 => probe.number = probe.view.url
           /\ (probe.view.inGame /\ probe.view.url = NoKey
               /\ probe.view.indicator # NoKey)
                 => probe.number = probe.view.indicator

\* a step in which the script detects a new round
NewRoundStep ==
    \/ gameState'.roundNumber # gameState.roundNumber
    \/ ~gameState.inRound /\ gameState'.inRound
    \/ gameState'.lastRoundId # gameState.lastRoundId

\* a step in which the script detects that the game was left
LeaveGameStep == gameState.inGame /\ ~gameState'.inGame

C27_SecondNoteNeedsConfirmation ==
    (cardRequest.sent /\ cardRequest.again) => cardRequest.confirmed

\* C28: in a battle-royale or duel game no automatic card flow is scheduled
\* and none is opened: no timer for the automatic prompt or the automatic
\* card is pending, and the latest card request is not an automatic one.
C28_NoAutomaticCardInDuels ==
    getGameType \in {"battle-royale", "duel"}
        => /\ \A t \in timeouts : t.kind \notin {"prompt", "autoCard"}
           /\ cardRequest.kind # "auto"

C30_BadPayloadDropped ==
    [][\A data \in {Unparsable, NoRounds} :
          /\ processGeoGuessrApiResponse(Cur, data) = Cur
          /\ (Commit(processGeoGuessrApiResponse(Cur, data))
              /\ responses' = responses + 1)
                => UNCHANGED <<gameState, roundLocations, timeouts, calls>>]_vars

\* on a result screen one response has been processed and no game data is
\* stored: the response was dropped
C30_PayloadWasDropped ==
    /\ page.screen = "result" /\ responses = 1
    /\ ~gameState.gameData /\ gameState.inRound

\* the requests whose reply yields a country for coordinates or a country code
ResolvingKinds == {"geocode", "countryInfo"}

\* request c, issued under round key c.key, settles in this step while
\* another round key is current
SettlesLate(c) ==
    /\ c \in calls \cup reading
    /\ c \notin calls' \cup reading'
    /\ c.kind \in ResolvingKinds
    /\ c.key # NoKey
    /\ gameState.currentRoundKey # c.key

\* C31: a country obtained by resolving coordinates (or the round's country
\* code) is held only by the record of the round played at those
\* coordinates, whether a callback wrote it or handleRoundEnd seeded the
\* record with it; and a callback that completes after the current round key
\* has changed leaves actualCountry, countryData and guessCountry of gameState
\* alone.
C31_CountryOnlyOnResolvedRound ==
    [][/\ \A k \in Keys :
             (/\ roundLocations'[k] # Null
              /\ roundLocations'[k].countrySrc \in ResolvingKinds)
             => roundLocations'[k].country = RoundCountry(k)
       /\ \A c \in calls \cup reading :
             SettlesLate(c)
             => /\ gameState'.actualCountry = gameState.actualCountry
                /\ gameState'.countryData = gameState.countryData
                /\ gameState'.guessCountry = gameState.guessCountry
      ]_vars

\* the round-end delay timers that go away in this step: the one whose
\* callback runs and, in v1.0.0, those its handleRoundEnd clears
RoundEndTimersGone == {t \in timeouts \ timeouts' : t.kind = "roundEnd"}

\* C32: when a round-end delay timer fires and handleRoundEnd runs, the round
\* key handleRoundEnd takes is the key that was current when the round end
\* was observed and the timer set, whatever the page shows by then.
C32_RoundEndFinalizesEndedRound ==
    [][(RoundEndTimersGone # {} /\ hreRuns' # hreRuns)
       => \E t \in RoundEndTimersGone : gameState'.currentRoundKey = t.sig
      ]_vars

\* the map provider's response `maps` is processed in this step
MapsProcessed(maps) ==
    /\ responses' = responses + 1
    /\ Commit(IF ver = "v100" THEN processGoogleMapsResponse100(Cur, maps)
              ELSE processGoogleMapsResponse110(Cur, maps))

\* C33: whenever the current round key is set, roundLocations holds a record
\* under it; hence a map-provider response processed while a round is played
\* does not fail on a missing record: its coordinate is stored on the record
\* of the current round.
C33_CurrentKeyHasRecord ==
    [][/\ gameState'.currentRoundKey # NoKey
          => roundLocations'[gameState'.currentRoundKey] # Null
       /\ \A maps \in MapsInputs :
             (isInActiveRound /\ MapsProcessed(maps))
             => /\ ~Throws(Cur, gameState.currentRoundKey)
                /\ roundLocations'[gameState'.currentRoundKey].location
                      = mapsValidCoords(maps)
      ]_vars

\* the record of the round on the page after `data` came through hook `via`
RecordVia(via, data) == apiDelivery(Cur, via, data).rl[generateRoundKey]

\* C34: a well-formed game API response is processed alike through every
\* hook the script installs: after delivery through the XHR hook the record of
\* the round has the same actual coordinate, guess coordinate and score as
\* after delivery through the fetch hook.
C34_SameThroughBothHooks ==
    \A data \in ScoredApiInputs : \A via, other \in Hooks :
        page.inGame =>
           /\ (RecordVia(via, data) = Null) = (RecordVia(other, data) = Null)
           /\ RecordVia(via, data) # Null =>
                 /\ RecordVia(via, data).location
                       = RecordVia(other, data).location
                 /\ RecordVia(via, data).guessLocation
                       = RecordVia(other, data).guessLocation
                 /\ RecordVia(via, data).score = RecordVia(other, data).score

\* the timers whose callback starts a card flow
CardTimerKinds == {"prompt", "autoCard"}

\* this step is the run of a card flow that ends in state s, with the
\* card prompt opened
Opens(s) == Commit(s) /\ s.card.shown

\* C35: while a round is played no card flow opens the card prompt: not the
\* callback of a prompt timer set at the end of the previous round, and not
\* the menu's commands.
C35_NoPromptDuringPlay ==
    [][isInActiveRound =>
          /\ \A t \in timeouts :
                t.kind \in CardTimerKinds =>
                   \A in \in TimeoutInputs(t.kind, Quiet) :
                      ~Opens(TimeoutCallback(
                                 [Cur EXCEPT !.timeouts = @ \ {t}], t, in))
          /\ ver = "v100" =>
                \A in \in CardInputs :
                   ~Opens(prepareAndCreateAnkiCard(
                              BeginRequest(Cur, "manual", in.dom), in))
          /\ ver = "v110" =>
                \A in \in OptionInputs :
                   ~Opens(createCardWithOptions(
                              BeginRequest(Cur, IF in.instant THEN "instant"
                                                ELSE "manual", in.dom), in))
      ]_vars

\* the addNote request for round key k settles in this step
AddNoteSettles(k) ==
    \E c \in calls \cup reading :
       /\ c.kind = "anki" /\ c.stage = "addNote" /\ c.roundKey = k
       /\ c \notin calls' \cup reading'

\* the script state after request c has failed, been rejected or timed out
AfterFailure(c) ==
    Completion([Cur EXCEPT !.calls = @ \ {c}, !.reading = @ \ {c}], c, FALSE)

\* C36: gameState.cardCreatedForRound and a record's cardCreated become true
\* only in the step in which the addNote request for that round is answered,
\* and a failed, rejected or unanswered request to the flashcard software
\* changes neither flag.
C36_FlagsOnlyAfterAcknowledgement ==
    [][/\ (gameState'.cardCreatedForRound /\ ~gameState.cardCreatedForRound)
          => \E k \in Keys : AddNoteSettles(k)
       /\ \A k \in Keys :
             (/\ roundLocations'[k] # Null /\ roundLocations'[k].cardCreated
              /\ (roundLocations[k] = Null \/ ~roundLocations[k].cardCreated))
             => AddNoteSettles(k)
       /\ \A c \in calls \cup reading :
             c.kind = "anki" =>
                /\ AfterFailure(c).gs.cardCreatedForRound
                      = gameState.cardCreatedForRound
                /\ \A k \in Keys :
                      roundLocations[k] # Null =>
                         AfterFailure(c).rl[k].cardCreated
                            = roundLocations[k].cardCreated
      ]_vars

\* C37: gameState.cardCreatedForRound is true only while the record of the
\* current round key is marked as carded; in particular a successful addNote
\* reply for an earlier round does not raise it for the round that is current
\* by then.
C37_FlagBelongsToCurrentRound ==
    gameState.cardCreatedForRound
    => /\ gameState.currentRoundKey # NoKey
       /\ roundLocations[gameState.currentRoundKey] # Null
       /\ roundLocations[gameState.currentRoundKey].cardCreated

\* C38: a note compiled in a request in which the user left the missed-clues
\* input blank carries the generated clues, and one in which the reminder
\* input was left blank carries the generated reminder, whatever was entered
\* in an earlier request for the round
C38_BlankInputUsesGenerated ==
    cardRequest.sent /\ cardRequest.kind = "manual" =>
        /\ (~Truthy(trim(cardRequest.typedClues))
                => cardRequest.usedClues = "auto")
        /\ (~Truthy(trim(cardRequest.typedReminder))
                => cardRequest.usedReminder = "auto")

\* C39: at most one listener for the widget's messages is registered at any
\* time, and a createCard message starts exactly one card flow
C39_OneMessageHandler ==
    /\ probe.handlers <= 1
    /\ probe.action = "createCard" => probe.flows = 1

====
